-------------------------------- MODULE MCJni --------------------------------
(***************************************************************************)
(* Values of Jni's constants for TLC.                                      *)
(***************************************************************************)
EXTENDS Jni

AnyBackend == BackendKinds
FramePointers == {"framepointer"}

(* Parts that all fit a buffer of 10, parts that end exactly at its end,    *)
(* and parts that do not fit.                                               *)
ShortAndLong ==
    [part \in Parts |->
        CASE part \in {": ", " "} -> 1
          [] part = "assertion" -> 9
          [] part = "location" -> 12
          [] part \in {"errno", "at address"} -> 3
          [] OTHER -> 2]

AnyRefusal == RefusalKinds
Nothing == {}

=============================================================================
