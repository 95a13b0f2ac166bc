----------------------------- MODULE MCFtpControl -----------------------------
(* The calls of the FTP client, with files of two pieces.                    *)
EXTENDS FtpControl

MCRequests ==
  [name : Names, at : {0}] \cup {[name |-> "Get", at |-> 1]}
===============================================================================
