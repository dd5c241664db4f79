---------------------------- MODULE MCRunnerLink ----------------------------
(* RunnerLink with lines of two units read three at a time.                *)
EXTENDS RunnerLink
=============================================================================
