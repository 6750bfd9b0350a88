----------------------------- MODULE RecordEntry -----------------------------
(***************************************************************************)
(* How records are entered: the wizard, whose forms (like those of the     *)
(* data tables) fill fields from the value generator.  The value is only   *)
(* data to the form, so the initial states give work to one of them at a   *)
(* time.                                                                   *)
(***************************************************************************)
EXTENDS Wizards, ValueGenerator

vars == <<wizardVars, generatorVars>>

Init ==
    /\ WizardInit
    /\ GeneratorInit
    /\ clicks = 0 <=> asked = MaxValues

Next ==
    \/ WizardStep /\ UNCHANGED generatorVars
    \/ GeneratorStep /\ UNCHANGED wizardVars

Spec == Init /\ [][Next]_vars /\ WizardFairness
=============================================================================
