---------------------------- MODULE KnowledgeBase ----------------------------
(* One knowledge base article and its embeddings.  The gateway (kb.service.ts) *)
(* writes the text, deletes the embeddings and queues a job for the article,   *)
(* in three steps; the worker (processors.ts) reads the text, deletes the      *)
(* embeddings again and stores those of the text chunk by chunk.  The job's id *)
(* is that of the article, so the queue ignores an add while it still has one, *)
(* which it keeps for a while after it is done.                                *)
EXTENDS ArticleEmbeddings, FiniteSets

CONSTANTS
  Requests,   \* requests of users in flight
  Slots,      \* of the workers, which run jobs concurrently
  Attempts,   \* runs of a job that may throw (3 in the code)
  MaxWrites,  \* bound: texts written
  MaxFaults,  \* bound: statements that fail, workers that die or stall
  None

VARIABLES writes, faults

vars == <<article, embedding, writer, embedJob, embedder, writes, faults, ignored, broken>>

Indices == UNION {1..Chunks[t] : t \in Texts}
Empty == [i \in Indices |-> None]
NoJob == [st |-> "none", by |-> None, throws |-> 0, stalled |-> FALSE]
Idle == [pc |-> "idle", text |-> None, i |-> 1]

Init ==
  /\ article = None /\ embedding = Empty
  /\ writer = [r \in Requests |-> "idle"]
  /\ embedJob = NoJob /\ embedder = [w \in Slots |-> Idle]
  /\ writes = 0 /\ faults = 0 /\ ignored = FALSE /\ broken = FALSE

Goto(r, pc) == writer' = [writer EXCEPT ![r] = pc]
Fail == faults < MaxFaults /\ faults' = faults + 1

-----------------------------------------------------------------------------
(* Users. *)

Write(t) == article' = t /\ writes < MaxWrites /\ writes' = writes + 1

CreateArticle(r) ==
  /\ writer[r] = "idle" /\ writes = 0
  /\ \E t \in Texts : Write(t)
  /\ Goto(r, "queue")
  /\ UNCHANGED <<embedding, embedJob, embedder, faults, ignored, broken>>

(* The text is overwritten; a change of the title alone does nothing here. *)
UpdateArticle(r) ==
  /\ writer[r] = "idle" /\ article # None
  /\ \E t \in Texts : Write(t)
  /\ Goto(r, "clear")
  /\ UNCHANGED <<embedding, embedJob, embedder, faults, ignored, broken>>

ReindexArticle(r) ==
  /\ writer[r] = "idle" /\ article # None
  /\ writes < MaxWrites /\ writes' = writes + 1
  /\ Goto(r, "clear")
  /\ UNCHANGED <<article, embedding, embedJob, embedder, faults, ignored, broken>>

Clear(r) ==
  /\ writer[r] = "clear"
  /\ embedding' = Empty
  /\ Goto(r, "queue")
  /\ UNCHANGED <<article, embedJob, embedder, writes, faults, ignored, broken>>

(* addKbEmbedding: ignored when the queue has the job.  While the job waits   *)
(* that loses nothing, its run will read the new text.                       *)
Enqueue(r) ==
  /\ writer[r] = "queue"
  /\ Goto(r, "idle")
  /\ IF embedJob.st = "none"
       THEN embedJob' = [NoJob EXCEPT !.st = "waiting"] /\ ignored' = FALSE
       ELSE embedJob' = embedJob /\ ignored' = (ignored \/ embedJob.st # "waiting")
  /\ UNCHANGED <<article, embedding, embedder, writes, faults, broken>>

(* The queue cannot be reached, or the gateway stops. *)
RequestFails(r) ==
  /\ writer[r] # "idle" /\ Fail
  /\ Goto(r, "idle") /\ broken' = TRUE
  /\ UNCHANGED <<article, embedding, embedJob, embedder, writes, ignored>>

(* The embeddings go with the article (onDelete: Cascade). *)
DeleteArticle ==
  /\ article # None
  /\ article' = None /\ embedding' = Empty
  /\ UNCHANGED <<writer, embedJob, embedder, writes, faults, ignored, broken>>

-----------------------------------------------------------------------------
(* The worker: processKbEmbeddingJob. *)

Run(w, next) == embedder' = [embedder EXCEPT ![w] = next]

Take(w) ==
  /\ embedder[w] = Idle /\ embedJob.st = "waiting"
  /\ embedJob' = [embedJob EXCEPT !.st = "active", !.by = w]
  /\ Run(w, [Idle EXCEPT !.pc = "read"])
  /\ UNCHANGED <<article, embedding, writer, writes, faults, ignored, broken>>

Read(w) ==
  /\ embedder[w].pc = "read"
  /\ Run(w, IF article = None THEN [embedder[w] EXCEPT !.pc = "done"]
            ELSE [embedder[w] EXCEPT !.pc = "wipe", !.text = article])
  /\ UNCHANGED <<article, embedding, writer, embedJob, writes, faults, ignored, broken>>

(* An empty text has no chunks. *)
Chunk(w, i) ==
  IF i <= Chunks[embedder[w].text] THEN [embedder[w] EXCEPT !.pc = "store", !.i = i]
  ELSE [embedder[w] EXCEPT !.pc = "done"]

(* Mutant of Wipe: a run leaves what an earlier one stored. *)
WipeNothing(w) ==
  /\ embedder[w].pc = "wipe"
  /\ Run(w, Chunk(w, 1))
  /\ UNCHANGED <<article, embedding, writer, embedJob, writes, faults, ignored, broken>>

Wipe(w) ==
  /\ embedder[w].pc = "wipe"
  /\ embedding' = Empty
  /\ Run(w, Chunk(w, 1))
  /\ UNCHANGED <<article, writer, embedJob, writes, faults, ignored, broken>>

(* The create fails when the article is gone or its index has a vector, which *)
(* is only noted in the job's result.                                         *)
Stored(i, t) ==
  IF article = None \/ embedding[i] # None THEN embedding ELSE [embedding EXCEPT ![i] = t]

AfterChunk(w) == Chunk(w, embedder[w].i + 1)

(* There is always a vector to store: without an answer of the gateway, the   *)
(* worker computes one from the text.                                         *)
Store(w) ==
  /\ embedder[w].pc = "store"
  /\ embedding' = Stored(embedder[w].i, embedder[w].text)
  /\ Run(w, AfterChunk(w))
  /\ UNCHANGED <<article, writer, embedJob, writes, faults, ignored, broken>>

(* A chunk that cannot be stored is skipped; the job still completes. *)
StoreFails(w) ==
  /\ embedder[w].pc = "store" /\ Fail
  /\ Run(w, AfterChunk(w)) /\ broken' = TRUE
  /\ UNCHANGED <<article, embedding, writer, embedJob, writes, ignored>>

Holds(w) == embedJob.st = "active" /\ embedJob.by = w
Keep == embedJob' = [embedJob EXCEPT !.st = "kept", !.by = None]

(* The job that is over is kept, among the last hundred. *)
Finish(w) ==
  /\ embedder[w].pc = "done"
  /\ Run(w, Idle)
  /\ IF Holds(w) THEN Keep ELSE embedJob' = embedJob
  /\ UNCHANGED <<article, embedding, writer, writes, faults, ignored, broken>>

(* Its first statements may throw: it is tried again, Attempts times. *)
Throw(w) ==
  /\ embedder[w].pc \in {"read", "wipe"} /\ Holds(w) /\ Fail
  /\ Run(w, Idle)
  /\ IF embedJob.throws + 1 < Attempts
       THEN embedJob' = [embedJob EXCEPT !.st = "waiting", !.by = None, !.throws = @ + 1] /\ broken' = broken
       ELSE Keep /\ broken' = TRUE
  /\ UNCHANGED <<article, embedding, writer, writes, ignored>>

(* The job's lock runs out: the worker died, or goes on beside the next run.  *)
(* The second time the job has failed.                                        *)
Stall(w, dead) ==
  /\ embedder[w].pc # "idle" /\ Holds(w) /\ Fail
  /\ embedder' = IF dead THEN [embedder EXCEPT ![w] = Idle] ELSE embedder
  /\ IF ~embedJob.stalled
       THEN embedJob' = [embedJob EXCEPT !.st = "waiting", !.by = None, !.stalled = TRUE]
       ELSE Keep
  /\ broken' = (broken \/ embedJob.stalled \/ ~dead)
  /\ UNCHANGED <<article, embedding, writer, writes, ignored>>

(* A hundred other jobs are done. *)
Evict ==
  /\ embedJob.st = "kept"
  /\ embedJob' = NoJob
  /\ UNCHANGED <<article, embedding, writer, embedder, writes, faults, ignored, broken>>

-----------------------------------------------------------------------------
Work(w) == Take(w) \/ Read(w) \/ Wipe(w) \/ Store(w) \/ Finish(w)

Next ==
  \/ \E r \in Requests :
       CreateArticle(r) \/ UpdateArticle(r) \/ ReindexArticle(r)
         \/ Clear(r) \/ Enqueue(r) \/ RequestFails(r)
  \/ \E w \in Slots : Work(w) \/ StoreFails(w) \/ Throw(w) \/ \E dead \in BOOLEAN : Stall(w, dead)
  \/ DeleteArticle \/ Evict

Spec == Init /\ [][Next]_vars

(* Workers take what waits and finish it, requests run to their end. *)
Serve(r) == Clear(r) \/ Enqueue(r)
Fairness ==
  /\ \A w \in Slots : WF_vars(Work(w))
  /\ \A r \in Requests : WF_vars(Serve(r))

-----------------------------------------------------------------------------
(* Types of the tables, the queue and the requests. *)
TypeOK ==
  /\ article \in Texts \cup {None}
  /\ embedding \in [Indices -> Texts \cup {None}]
  /\ writer \in [Requests -> {"idle", "clear", "queue"}]
  /\ embedJob \in [st : {"none", "waiting", "active", "kept"}, by : Slots \cup {None},
             throws : 0..Attempts, stalled : BOOLEAN]
  /\ embedder \in [Slots -> [pc : {"idle", "read", "wipe", "store", "done"},
                         text : Texts \cup {None}, i : {1} \cup Indices]]
  /\ writes \in 0..MaxWrites /\ faults \in 0..MaxFaults
  /\ ignored \in BOOLEAN /\ broken \in BOOLEAN

(* addKbEmbedding, processKbEmbeddingJob: an article does not stay without the *)
(* embeddings of its text, with the exceptions of RestingIsEmbedded.           *)
Behind == article # None /\ ~ignored /\ ~broken /\ ~Embedded
ArticleIsEmbedded == []<>~Behind
=============================================================================
