---------------------------- MODULE ValueGenerator ----------------------------
(***************************************************************************)
(* ValueGenerator::getNextSequence on one row of the sequence table, by    *)
(* callers that overlap.  Only the UPDATE is atomic: nothing ties the read *)
(* that follows it to the row it has just written.                         *)
(***************************************************************************)
EXTENDS Naturals

CONSTANTS
    Caller,
    MaxValues    \* bound: values asked for

ASSUME GeneratorAssumption == MaxValues \in Nat

VARIABLES
    current,     \* current_value, 0 before the row exists
    caller,      \* what each caller is about to do
    value,       \* the value each one was given last
    given,       \* the largest value given so far
    before,      \* what that was when each caller began
    asked

generatorVars == <<current, caller, value, given, before, asked>>

GeneratorTypeOK ==
    /\ current \in Nat
    /\ caller \in [Caller -> {"idle", "insert", "update", "read"}]
    /\ value \in [Caller -> Nat]
    /\ given \in Nat
    /\ before \in [Caller -> Nat]
    /\ asked \in 0..MaxValues

GeneratorInit ==
    /\ current = 0
    /\ caller = [c \in Caller |-> "idle"]
    /\ value = [c \in Caller |-> 0]
    /\ given = 0
    /\ before = [c \in Caller |-> 0]
    /\ asked \in {0, MaxValues}

GoTo(c, at) == caller' = [caller EXCEPT ![c] = at]

FindRow(c) ==
    /\ caller[c] = "idle"
    /\ asked < MaxValues
    /\ asked' = asked + 1
    /\ before' = [before EXCEPT ![c] = given]
    /\ GoTo(c, IF current = 0 THEN "insert" ELSE "update")
    /\ UNCHANGED <<current, value, given>>

\* A second insert throws or changes nothing that is read later, as the
\* application's table has a unique name or not.
InsertRow(c) ==
    /\ caller[c] = "insert"
    /\ \/ current = 0 /\ current' = 1 /\ GoTo(c, "update")
       \/ current > 0 /\ UNCHANGED current /\ (GoTo(c, "update") \/ GoTo(c, "idle"))
    /\ UNCHANGED <<value, given, before, asked>>

\* Mutant: the new value is computed from the one the caller knew.
UpdateFromCopy(c) ==
    /\ caller[c] = "update"
    /\ current' = before[c] + 1
    /\ GoTo(c, "read")
    /\ UNCHANGED <<value, given, before, asked>>

UpdateRow(c) ==
    /\ caller[c] = "update"
    /\ current' = current + 1
    /\ GoTo(c, "read")
    /\ UNCHANGED <<value, given, before, asked>>

ReadValue(c) ==
    /\ caller[c] = "read"
    /\ value' = [value EXCEPT ![c] = current]
    /\ given' = IF current > given THEN current ELSE given
    /\ GoTo(c, "idle")
    /\ UNCHANGED <<current, before, asked>>

GeneratorStep ==
    \E c \in Caller : FindRow(c) \/ InsertRow(c) \/ UpdateRow(c) \/ ReadValue(c)

GeneratorSpec == GeneratorInit /\ [][GeneratorStep]_generatorVars
-----------------------------------------------------------------------------
(***************************************************************************)
(* A value handed out is larger than every one handed out before its       *)
(* caller asked: only callers that overlap can be given the same one.      *)
(***************************************************************************)
LaterIsLarger ==
    [][\A c \in Caller : value'[c] # value[c] => value'[c] > before[c]]_generatorVars
=============================================================================
