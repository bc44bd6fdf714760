--------------------------- MODULE DeployAndMail ---------------------------
(***************************************************************************)
(* A function's versions and the mail that runs it, which share no state:  *)
(* `part` says which of the two moves.                                     *)
(***************************************************************************)
EXTENDS Deploy, InboundMail

VARIABLE part

PartInit ==
    /\ part \in {"deploy", "mail"} /\ DeployInit /\ MailInit
    /\ part # "mail" => trigger = {}

PartNext ==
    /\ UNCHANGED part
    /\ \/ part = "deploy" /\ DeployNext /\ UNCHANGED mailVars
       \/ part = "mail" /\ MailNext /\ UNCHANGED deployVars

PartSpec == PartInit /\ [][PartNext]_<<part, deployVars, mailVars>>

\* The variables of the part that moves have their types.
PartTypeOK == IF part = "deploy" THEN DeployTypeOK ELSE MailTypeOK

=============================================================================
