---------------------------- MODULE MCImportJobs ----------------------------
(* A small instance of ImportJobs: two jobs, of one name or of two, as the cfg
   gives one path or two. *)
EXTENDS ImportJobs
=============================================================================
