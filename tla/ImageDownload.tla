---------------------------- MODULE ImageDownload ----------------------------
(***************************************************************************)
(* One fetch of an image over HTTP (extensions/standby.py): the retries of *)
(* _download_with_proxy inside the URLs of ImageDownload inside the        *)
(* attempts of _download_image, which writes a file, or of                 *)
(* _stream_raw_image_onto_device, which writes a device.                   *)
(***************************************************************************)
EXTENDS Naturals, Sequences, FiniteSets

CONSTANTS URLs,    \* length of image_info['urls']
          Retries, \* image_download_connection_retries
          Chunks   \* chunks of the image

ASSUME DownloadAssumption == /\ URLs \in Nat \ {0} /\ Chunks \in Nat \ {0}
                             /\ Retries \in Nat

VARIABLES
  streaming,    \* onto a device, or into a file?
  checksum_url, \* is the checksum to be fetched too?
  pc,
  attempt,      \* of the whole download
  url,          \* the URL being tried; 0 is the one of the checksum
  conn_attempt, \* of _download_with_proxy
  resp,         \* its last response
  hashed,       \* what _hash_algo has been updated with
  stored,       \* what is stored at the target, chunk by chunk
  overdue,      \* is image_download_max_duration over?
  error         \* the exception that ended the download

settings == <<streaming, checksum_url>>
downloadVars == <<settings, pc, attempt, url, conn_attempt, resp, hashed, stored,
          overdue, error>>

Responses == {"none", "200", "odd", "4xx", "5xx"}
Kinds     == {"good", "bad"}
Errors    == {"none", "download", "fatal", "space", "checksum",
              "connection", "open"}

FirstUrl == IF checksum_url THEN 0 ELSE 1

DownloadInit ==
  /\ streaming \in BOOLEAN /\ checksum_url \in BOOLEAN
  /\ pc = "connecting"
  /\ attempt = 0 /\ url = FirstUrl /\ conn_attempt = 0 /\ resp = "none"
  /\ hashed = <<>> /\ stored = [c \in 1..Chunks |-> "old"]
  /\ overdue = FALSE /\ error = "none"

-----------------------------------------------------------------------------
(* How an attempt ends                                                     *)

GiveUp(e) ==
  /\ pc' = "failed" /\ error' = e
  /\ UNCHANGED <<attempt, url, conn_attempt, resp, hashed>>

(* A new ImageDownload, with a new hash; the time it started is kept.      *)
NextAttempt ==
  /\ attempt' = attempt + 1
  /\ pc' = "connecting" /\ url' = FirstUrl
  /\ conn_attempt' = 0 /\ resp' = "none" /\ hashed' = <<>>
  /\ UNCHANGED error

(* Mutant: the hash object outlives the attempt.                           *)
MutRetry(e) ==
  \/ /\ attempt < Retries
     /\ attempt' = attempt + 1
     /\ pc' = "connecting" /\ url' = FirstUrl
     /\ conn_attempt' = 0 /\ resp' = "none"
     /\ UNCHANGED <<error, hashed>>
  \/ attempt >= Retries /\ GiveUp(e)

(* ImageDownloadError and ImageChecksumError.                              *)
Retry(e) == \/ attempt < Retries /\ NextAttempt
            \/ attempt >= Retries /\ GiveUp(e)

-----------------------------------------------------------------------------
(* Connecting                                                              *)

Connecting == pc = "connecting"

(* A response is true if its status is below 400, so that a 4xx is retried *)
(* like an exception that left no response.                                *)
RetriesRequest(response) ==
  conn_attempt < Retries /\ response \notin {"200", "odd"}

RetryRequest(response) ==
  /\ conn_attempt' = conn_attempt + 1 /\ resp' = response
  /\ UNCHANGED <<pc, attempt, url, hashed, error>>

TryNextUrl ==
  /\ url' = url + 1 /\ conn_attempt' = 0 /\ resp' = "none"
  /\ UNCHANGED <<pc, attempt, hashed, error>>

(* A requests exception is no ImageDownloadError: nobody catches it.       *)
ConnectionFails ==
  /\ Connecting
  /\ IF RetriesRequest(resp) THEN RetryRequest(resp) ELSE GiveUp("connection")
  /\ UNCHANGED <<settings, stored, overdue>>

ServerError ==
  /\ Connecting
  /\ IF RetriesRequest("5xx") THEN RetryRequest("5xx")
     ELSE IF url \in 1..(URLs - 1) THEN TryNextUrl
     ELSE Retry("download")
  /\ UNCHANGED <<settings, stored, overdue>>

(* Statuses that _download_with_proxy raises ImageDownloadFatalError for.  *)
FatalStatus(status) ==
  /\ Connecting
  /\ IF RetriesRequest(status) THEN RetryRequest(status) ELSE GiveUp("fatal")
  /\ UNCHANGED <<settings, stored, overdue>>

ChecksumFetched ==
  /\ Connecting /\ url = 0
  /\ \/ TryNextUrl
     \/ Retry("download")    \* no checksum is found in it
  /\ UNCHANGED <<settings, stored, overdue>>

(* A file is opened for writing and truncated; a device is not.            *)
DownloadOpened ==
  /\ Connecting /\ url # 0
  /\ resp' = "200"
  /\ pc' = "reading"
  /\ stored' = IF streaming THEN stored ELSE [c \in 1..Chunks |-> "none"]
  /\ UNCHANGED <<settings, attempt, url, conn_attempt, hashed, overdue,
                 error>>

OpenFails ==
  /\ Connecting /\ url # 0
  /\ GiveUp("open")
  /\ UNCHANGED <<settings, stored, overdue>>

-----------------------------------------------------------------------------
(* Reading                                                                 *)

Reading == pc = "reading" /\ Len(hashed) < Chunks

Chunk(kind) ==
  /\ Reading /\ ~overdue
  /\ hashed' = Append(hashed, kind)
  /\ stored' = [stored EXCEPT ![Len(hashed) + 1] = kind]
  /\ UNCHANGED <<settings, pc, attempt, url, conn_attempt, resp, overdue,
                 error>>

(* A read that failed, an empty chunk after the timeout (or before any     *)
(* chunk: there is no _last_chunk_time yet), or a write that failed.       *)
ReadFails ==
  /\ Reading
  /\ Retry("download")
  /\ UNCHANGED <<settings, stored, overdue>>

(* ImageDownloadTimeoutError becomes an ImageDownloadError on its way out. *)
TimedOut ==
  /\ Reading /\ overdue
  /\ Retry("download")
  /\ UNCHANGED <<settings, stored, overdue>>

OutOfSpace ==
  /\ Reading /\ ~overdue
  /\ IF streaming THEN Retry("download") ELSE GiveUp("space")
  /\ UNCHANGED <<settings, stored, overdue>>

(* The stream ends, after the last chunk or too early.                     *)
EndOfStream ==
  /\ pc = "reading"
  /\ pc' = "verifying"
  /\ UNCHANGED <<settings, attempt, url, conn_attempt, resp, hashed, stored,
                 overdue, error>>

-----------------------------------------------------------------------------
(* Verifying                                                               *)

(* Mutant: only what was received is compared, not that all was received.  *)
MutChecksumMatches == \A c \in 1..Len(hashed) : hashed[c] = "good"

ChecksumMatches == hashed = [c \in 1..Chunks |-> "good"]

VerifyImage ==
  /\ pc = "verifying"
  /\ IF ChecksumMatches
       THEN /\ pc' = "ok"
            /\ UNCHANGED <<attempt, url, conn_attempt, resp, hashed, error>>
       ELSE Retry("checksum")
  /\ UNCHANGED <<settings, stored, overdue>>

(* The clock; it only counts if image_download_max_duration is set.        *)
BecomeOverdue ==
  /\ ~overdue /\ pc \notin {"ok", "failed"}
  /\ overdue' = TRUE
  /\ UNCHANGED <<settings, pc, attempt, url, conn_attempt, resp, hashed,
                 stored, error>>

Stopped == pc \in {"ok", "failed"} /\ UNCHANGED downloadVars

DownloadStep ==
  \/ ConnectionFails \/ ServerError \/ ChecksumFetched
  \/ \E status \in {"odd", "4xx"} : FatalStatus(status)
  \/ DownloadOpened \/ OpenFails
  \/ \E kind \in Kinds : Chunk(kind)
  \/ ReadFails \/ TimedOut \/ OutOfSpace \/ EndOfStream
  \/ VerifyImage

DownloadNext == DownloadStep \/ BecomeOverdue \/ Stopped

(* Requests and reads have timeouts of their own.                          *)
DownloadSpec == DownloadInit /\ [][DownloadNext]_downloadVars /\ WF_downloadVars(DownloadStep)

-----------------------------------------------------------------------------
(* Properties                                                              *)

(* Every variable holds a value of its type.                               *)
DownloadTypes ==
  /\ streaming \in BOOLEAN /\ checksum_url \in BOOLEAN
  /\ pc \in {"connecting", "reading", "verifying", "ok", "failed"}
  /\ attempt \in 0..Retries /\ conn_attempt \in 0..Retries
  /\ url \in FirstUrl..URLs /\ resp \in Responses
  /\ Len(hashed) <= Chunks
  /\ stored \in [1..Chunks -> Kinds \cup {"old", "none"}]
  /\ overdue \in BOOLEAN /\ error \in Errors

(* What is stored, as the caller sees it.                                  *)
Target ==
  IF \A c \in 1..Chunks : stored[c] = "old"  THEN "old"
  ELSE IF \A c \in 1..Chunks : stored[c] = "good" THEN "complete"
  ELSE IF \E c \in 1..Chunks : stored[c] = "bad"  THEN "corrupt"
  ELSE "partial"

Result == IF pc \in {"ok", "failed"} THEN pc ELSE "running"

Fetch == INSTANCE ImageFetch WITH target <- Target, result <- Result

(* Three levels of retries over connections that break, truncated and      *)
(* corrupted streams: the download ends, and if it succeeds the target     *)
(* holds the whole verified image.                                         *)
ImplementsFetch == Fetch!FetchSpec

(* The checksum that is compared is the one of what the current attempt    *)
(* stored: no earlier attempt is left over in the hash.                    *)
HashMatchesTarget ==
  pc \in {"reading", "verifying", "ok"} =>
    \A c \in 1..Len(hashed) : stored[c] = hashed[c]
=============================================================================
