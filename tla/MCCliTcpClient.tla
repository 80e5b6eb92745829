--------------------------- MODULE MCCliTcpClient ---------------------------
(* An operator opens the client, connects it and closes it, a few times. *)
EXTENDS CliTcpClient
=============================================================================
