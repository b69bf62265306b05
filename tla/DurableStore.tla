---------------------------- MODULE DurableStore ----------------------------
(***************************************************************************)
(* What a volume and the image it came from promise together: the calls    *)
(* work on a file store in memory, a save makes what it holds the state of *)
(* the image, and opening the image, be it in another process or after a   *)
(* crash, gives back the store as it was saved last: every call before the *)
(* save, and none after it.                                                *)
(***************************************************************************)
EXTENDS FileStore

VARIABLE saved    \* the files as the image holds them

durable == <<files, disk, call, result, saved>>

Call == Next /\ UNCHANGED saved

Save ==
  /\ call' = <<"save">> /\ result' = "Ok"
  /\ saved' = files
  /\ UNCHANGED <<files, disk>>

Open ==
  /\ call' = <<"open">> /\ result' = "Ok"
  /\ files' = saved
  /\ UNCHANGED <<disk, saved>>

\* A store is opened before anything is done to it.
DurableInit == Init /\ saved = files

DurableSpec == DurableInit /\ [][Call \/ Save \/ Open]_durable
=============================================================================
