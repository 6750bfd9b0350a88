--------------------------- MODULE MCScheduledWork ---------------------------
(***************************************************************************)
(* Two invitations of one person into two companies, the first one to a    *)
(* role and perhaps already sent, the second one to none; one daily report *)
(* to two recipients or to nobody.                                         *)
(***************************************************************************)
EXTENDS ScheduledWork

CONSTANTS First, Offered

OneEmail == [i \in Invitation |-> CHOOSE e \in Email : TRUE]
OwnCompany == [i \in Invitation |-> i]
NoneOrFirst == {{}, {First}}
FirstOffersRole == [i \in Invitation |-> IF i = First THEN Offered ELSE None]
AllOrNobody == {{}, Recipient}
=============================================================================
