---------------------------- MODULE MCTransferLoops ----------------------------
(* A small instance of TransferLoops for TLC. *)
EXTENDS TransferLoops

\* The native operation, and a copy by a handler of the web server.  The model
\* of the SMB and NFS Get is that of the SFTP Get, so one of the three will do.
MCOffered ==
  [native |-> Copies \cup Puts \cup {"SFTPClient::Get", "BaseClient::Get"},
   web    |-> {"FS::Copy"}]

===============================================================================
