------------------------------- MODULE MCPipe -------------------------------
(* A small instance of the file table and pipes.                            *)
EXTENDS Pipe
=============================================================================
