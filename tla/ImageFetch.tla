----------------------------- MODULE ImageFetch -----------------------------
(***************************************************************************)
(* What fetching an image promises its caller (extensions/standby.py:      *)
(* _download_image and _stream_raw_image_onto_device): whatever happens to *)
(* the target on the way, success means that the verified image is there.  *)
(***************************************************************************)

VARIABLES target,  \* what is stored at the target
          result   \* of the fetch

fetchVars == <<target, result>>

Contents == {"old", "partial", "corrupt", "complete"}
Results  == {"running", "ok", "failed"}

FetchInit == target = "old" /\ result = "running"

Transfer == /\ result = "running"
            /\ target' \in Contents
            /\ UNCHANGED result

Succeed == /\ result = "running" /\ target = "complete"
           /\ result' = "ok"
           /\ UNCHANGED target

Fail == /\ result = "running"
        /\ result' = "failed"
        /\ UNCHANGED target

FetchNext == Transfer \/ Succeed \/ Fail

FetchSpec == /\ FetchInit /\ [][FetchNext]_fetchVars
             /\ WF_fetchVars(Succeed \/ Fail)
=============================================================================
