-------------------------- MODULE ArticleEmbeddings ---------------------------
(* What the embeddings of an article promise once its edits and its jobs have *)
(* come to rest; KnowledgeBase says who writes and embeds it.                 *)
EXTENDS Integers

CONSTANTS
  Chunks      \* of each text: into how many chunks splitIntoChunks cuts it

VARIABLES
  article,    \* its text, or none: not yet created, deleted
  embedding,  \* table KbEmbedding: the text whose chunk is stored at each index
  writer,     \* of each user request: where it is
  embedJob,   \* of the queue: the job's state, the slot that holds its lock,
              \* how often it threw and whether its lock was lost once
  embedder,   \* the job's runs: where, of what text and at which chunk
  ignored,    \* history: an add was ignored after the job's run had begun
  broken      \* history: a fault the code does not make up for

Texts == DOMAIN Chunks
ASSUME ChunksAssumption == \A t \in Texts : Chunks[t] \in Nat

Embedded ==
  \A i \in DOMAIN embedding :
    IF i <= Chunks[article] THEN embedding[i] = article ELSE embedding[i] \notin Texts

(* Every request was answered, and the job neither waits nor runs. *)
AtRest ==
  /\ \A r \in DOMAIN writer : writer[r] = "idle"
  /\ \A w \in DOMAIN embedder : embedder[w].pc = "idle"
  /\ embedJob.st # "waiting"

(* processors.ts:1252, "Delete old embeddings for idempotency": at rest an     *)
(* article has the embeddings of its last text, all of them and no other's,    *)
(* however edits, deletions and the runs of its job interleaved and whichever  *)
(* of these threw or lost its worker - unless an add was ignored because the   *)
(* queue still had the job, or a fault broke what the code does not repeat: a  *)
(* request cut off, a chunk skipped, a run beside another, a job given up.     *)
RestingIsEmbedded ==
  AtRest /\ article \in Texts /\ ~ignored /\ ~broken => Embedded
===============================================================================
