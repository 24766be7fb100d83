----------------------------- MODULE Containers ------------------------------
(* The containers of the service on one database; each is taken to serve one *)
(* request at a time, so that their number stands for that of the workers.   *)
CONSTANT Processes
=============================================================================
