------------------------------- MODULE Chunks -------------------------------
(***************************************************************************)
(* SendSSE, SendChunkPro and SendChunk: the progress of a job, sent to one *)
(* client. The job sends its chunks over a channel and closes it; the      *)
(* first two keep the last chunk back until the next tick, so that a fast  *)
(* job does not flood the client. The n-th chunk is n; one that has no     *)
(* content is 0, and is taken for the closed channel.                      *)
(***************************************************************************)
EXTENDS Naturals, Sequences

CONSTANTS MaxChunks    \* bound

ASSUME ChunksAssumption == MaxChunks \in Nat

VARIABLES
  how,       \* "sse", "pro" or "plain": which of the three
  job,       \* the chunks that the job has still to send
  last,      \* the chunk kept back, or 0
  taken,     \* history: the last chunk received
  written,   \* the chunks written to the client
  failed,    \* history: a write has failed
  ended      \* "no", "closed" or "broken"

chunkvars == <<how, job, last, taken, written, failed, ended>>

Jobs == {[i \in 1..n |-> IF i = blank THEN 0 ELSE i] :
           n \in 0..MaxChunks, blank \in 0..MaxChunks}

ChunksInit ==
  /\ how \in {"sse", "pro", "plain"} /\ job \in Jobs
  /\ last = 0 /\ taken = 0 /\ written = <<>> /\ ended = "no" /\ failed = FALSE

\* What is received; the zero value once the channel is closed.
Chunk == IF job = <<>> THEN 0 ELSE Head(job)
Receive == job' = IF job = <<>> THEN job ELSE Tail(job)

\* SendSSE does not look at the error of a write.
Written(chunk, then) ==
  \/ written' = Append(written, chunk) /\ ended' = then /\ UNCHANGED failed
  \/ /\ failed' = TRUE /\ UNCHANGED written
     /\ ended' = IF how = "sse" THEN then ELSE "broken"

Over == ended' = "closed" /\ UNCHANGED <<written, failed>>

Tick ==
  /\ ended = "no" /\ how # "plain" /\ last # 0
  /\ Written(last, "no") /\ last' = 0
  /\ UNCHANGED <<how, job, taken>>

\* A chunk replaces the one kept back.
KeepChunk ==
  /\ ended = "no" /\ how # "plain" /\ Chunk # 0
  /\ last' = Chunk /\ taken' = Chunk /\ Receive
  /\ UNCHANGED <<how, written, failed, ended>>

\* Mutant: the end comes without the chunk kept back.
EndAtOnce ==
  /\ ended = "no" /\ how # "plain" /\ Chunk = 0
  /\ Over /\ Receive /\ UNCHANGED <<how, last, taken>>

Flush ==
  /\ ended = "no" /\ how # "plain" /\ Chunk = 0
  /\ \/ last # 0 /\ Written(last, "closed")
     \/ last = 0 /\ Over
  /\ Receive /\ UNCHANGED <<how, last, taken>>

SendChunk ==
  /\ ended = "no" /\ how = "plain"
  /\ \/ Chunk # 0 /\ Written(Chunk, "no") /\ taken' = Chunk
     \/ Chunk = 0 /\ Over /\ UNCHANGED taken
  /\ Receive /\ UNCHANGED <<how, last>>

ChunksNext == Tick \/ KeepChunk \/ Flush \/ SendChunk

-----------------------------------------------------------------------------
(* The client sees the chunks in their order, and when the sending is over *)
(* and no write has failed, the last one received is the last one written, *)
(* although it may have come right before the close.                       *)
LastDelivered ==
  /\ \A i, j \in 1..Len(written) : i < j => written[i] < written[j]
  /\ ended = "closed" /\ taken > 0 /\ ~failed
       => written # <<>> /\ written[Len(written)] = taken
=============================================================================
