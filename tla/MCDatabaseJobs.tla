--------------------------- MODULE MCDatabaseJobs ---------------------------
(***************************************************************************)
(* DatabaseJobs with one session and two IO workers.  An accept makes two  *)
(* of its requests: a Create is a Delete whose result nobody looks at      *)
(* either.                                                                 *)
(***************************************************************************)
EXTENDS DatabaseJobs

MCRequests == <<"Load", "Delete">>
=============================================================================
