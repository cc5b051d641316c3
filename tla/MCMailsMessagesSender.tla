------------------------ MODULE MCMailsMessagesSender ------------------------
(***************************************************************************)
(* Two workers over two mails, one of which does not deserialize; the 20th *)
(* failing delivery, at which a mail is given up, is scaled to the third.  *)
(* No symmetry: the run checks liveness as well.                           *)
(***************************************************************************)
EXTENDS MailsMessagesSender
=============================================================================
