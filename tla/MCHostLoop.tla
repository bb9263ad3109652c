----------------------------- MODULE MCHostLoop -----------------------------
(***************************************************************************)
(* An instance of HostLoop whose cascade has no end: the update of a       *)
(* secret whose expression names the secret itself makes the vault raise   *)
(* the event that schedules the update.  A rotation begins it, or a new    *)
(* version from outside (RawProcessRequest.FormatRequest and               *)
(* RequestProcessorFactory say which event leads to which request).        *)
(***************************************************************************)
EXTENDS HostLoop

CONSTANTS nearExpiry, newVersion,    \* model values: raw events
          rotate, schedule, update   \* model values: formatted requests

On(raw, formatted) == [p \in Queues |-> IF p = "raw" THEN raw ELSE formatted]

MCSends ==
  [m \in Messages |->
     CASE m = nearExpiry -> On({}, {rotate})
       [] m = newVersion -> On({}, {schedule})
       [] m = rotate     -> On({newVersion}, {})
       [] m = schedule   -> On({}, {update})
       [] m = update     -> On({newVersion}, {})]
=============================================================================
