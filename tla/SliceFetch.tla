------------------------------ MODULE SliceFetch ------------------------------
(***************************************************************************)
(* How a slice of the dataset reaches a train executor.  The executor's     *)
(* loader processes ask the bridge of their job for data, all of them at    *)
(* the same time; the bridge asks the scheduler which slice is next, looks  *)
(* for it among the files of the job and otherwise pulls it from a data     *)
(* node into a file of that name, checks its hash and answers with the      *)
(* path, which the loader opens.  Every await of that handler is a step.    *)
(*                                                                          *)
(* A slice is a row of chunks; a chunk of a file is right, wrong (the data  *)
(* node's file changed since it was indexed) or not written.                *)
(***************************************************************************)
EXTENDS Naturals, FiniteSets

CONSTANTS
    Loaders,     \* processes of the executor's DataLoader (num_workers, 4)
    Hashes,      \* hashes of the dataset's index
    Providers,   \* data nodes that announced the dataset
    NumChunks,   \* chunks of a slice
    MaxRetries,  \* retries of one fetch (6)
    MaxFetches   \* bound of the model on the fetches of one loader

ASSUME FetchAssumption ==
    /\ NumChunks \in Nat \ {0}
    /\ MaxRetries \in Nat
    /\ MaxFetches \in Nat

Chunks == 1 .. NumChunks

VARIABLES
    node,       \* what each data node has where its index names a slice
    file,       \* artifacts/<hash> in the job's work directory
    fetch,      \* each loader's request, a task of the bridge
    loaded,     \* the slices loaded, and whether they were whole
    disturbed   \* slices whose download broke off, or met another fetch

fetchVars == <<node, file, fetch, loaded, disturbed>>

NoFile == [exists |-> FALSE, data |-> [k \in Chunks |-> "unwritten"]]

Empty == [NoFile EXCEPT !.exists = TRUE]

Whole(s) == file[s].exists /\ \A k \in Chunks : file[s].data[k] = "right"

NoFetch == [at |-> "idle", slice |-> "none", retries |-> 0, from |-> "none",
            left |-> 0, linked |-> FALSE, made |-> 0]

FetchInit ==
    /\ node \in [Providers -> {"indexed", "changed", "missing"}]
    /\ file = [s \in Hashes |-> NoFile]
    /\ fetch = [l \in Loaders |-> NoFetch]
    /\ loaded = {}
    /\ disturbed = {}

(* Places of a fetch between the creation of its file and the check of its  *)
(* hash, and those where it counts on a file that is there.                 *)
Writing == {"copying", "hashing", "removing"}
Trusting == {"found", "permitting", "served"}

Others(l, places) ==
    \E m \in Loaders \ {l} : /\ fetch[m].slice = fetch[l].slice
                             /\ fetch[m].at \in places

DisturbedIf(l, condition) ==
    IF condition THEN disturbed \cup {fetch[l].slice} ELSE disturbed

Abandoned(l) == [fetch[l] EXCEPT !.from = "none", !.left = 0, !.linked = FALSE]

(* Seeded fault: the retries are not counted.                               *)
RetriedForever(l) == [Abandoned(l) EXCEPT !.at = "checking"]

(* Retry::spawn: any error starts the attempt again, until none is left.    *)
Retried(l) ==
    IF fetch[l].retries > 0
    THEN [Abandoned(l) EXCEPT !.at = "checking", !.retries = @ - 1]
    ELSE [Abandoned(l) EXCEPT !.at = "failed"]

At(l, place) == fetch[l].at = place

Goto(l, place) == fetch' = [fetch EXCEPT ![l].at = place]

----------------------------------------------------------------------------
(* A data node's file is replaced, is lost, or comes back.                  *)
NodeChanges(d) ==
    /\ \E state \in {"indexed", "changed", "missing"} \ {node[d]} :
         node' = [node EXCEPT ![d] = state]
    /\ UNCHANGED <<file, fetch, loaded, disturbed>>

(* The scheduler answers with a slice and the data nodes that have it.      *)
Ask(l, s) ==
    /\ fetch[l].at \in {"idle", "failed"} /\ fetch[l].made < MaxFetches
    /\ fetch' = [fetch EXCEPT ![l] =
                   [NoFetch EXCEPT !.at = "checking", !.slice = s,
                                   !.retries = MaxRetries,
                                   !.made = fetch[l].made + 1]]
    /\ UNCHANGED <<node, file, loaded, disturbed>>

(* The scheduler's answer failed to come, the first retries included.       *)
AskFails(l) ==
    /\ fetch[l].at \in {"idle", "failed"} /\ fetch[l].made < MaxFetches
    /\ fetch' = [fetch EXCEPT ![l].at = "failed", ![l].made = @ + 1]
    /\ UNCHANGED <<node, file, loaded, disturbed>>

(* try_exists.                                                              *)
Check(l) ==
    /\ At(l, "checking")
    /\ Goto(l, IF file[fetch[l].slice].exists THEN "found" ELSE "pulling")
    /\ disturbed' = DisturbedIf(l, file[fetch[l].slice].exists /\ Others(l, Writing))
    /\ UNCHANGED <<node, file, loaded>>

(* metadata of the file that was found: the answer, without a look at it.   *)
Found(l) ==
    /\ At(l, "found")
    /\ fetch' = [fetch EXCEPT ![l] = IF file[fetch[l].slice].exists
                                     THEN [@ EXCEPT !.at = "served"]
                                     ELSE Retried(l)]
    /\ UNCHANGED <<node, file, loaded, disturbed>>

(* What streams_pull of a data node does with a request: it announces the   *)
(* length of the file and sends it, or drops the stream.                    *)
Pull(d) == CASE node[d] = "indexed" -> {"right", "dropped"}
             [] node[d] = "changed" -> {"wrong", "dropped"}
             [] node[d] = "missing" -> {"dropped"}

(* open_pull_stream from a data node chosen at random, up to its header.    *)
OpenPull(l) ==
    /\ At(l, "pulling")
    /\ \E d \in Providers : \E answer \in Pull(d) :
         fetch' = [fetch EXCEPT ![l] =
                     IF answer = "dropped" THEN Retried(l)
                     ELSE [@ EXCEPT !.at = "creating", !.from = answer]]
    /\ UNCHANGED <<node, file, loaded, disturbed>>

(* File::create truncates a file that is there, also one that another fetch *)
(* has open.                                                                *)
Create(l) ==
    /\ At(l, "creating")
    /\ file' = [file EXCEPT ![fetch[l].slice] = Empty]
    /\ fetch' = [fetch EXCEPT ![l].at = "copying", ![l].left = NumChunks,
                              ![l].linked = TRUE]
    /\ disturbed' = DisturbedIf(l, Others(l, Writing \cup Trusting))
    /\ UNCHANGED <<node, loaded>>

(* FixedAsyncRead passes on what the stream has while a part is left.       *)
CopyChunk(l) ==
    /\ At(l, "copying") /\ fetch[l].left > 0
    /\ fetch' = [fetch EXCEPT ![l].left = @ - 1]
    /\ file' = IF fetch[l].linked
               THEN [file EXCEPT ![fetch[l].slice].data[NumChunks + 1 - fetch[l].left]
                                   = fetch[l].from]
               ELSE file
    /\ UNCHANGED <<node, loaded, disturbed>>

(* The stream ends early (UnexpectedEof) or the disk is full: the attempt   *)
(* is over and the file stays as it is.                                     *)
CopyBreaks(l) ==
    /\ At(l, "copying")
    /\ fetch' = [fetch EXCEPT ![l] = Retried(l)]
    /\ disturbed' = DisturbedIf(l, TRUE)
    /\ UNCHANGED <<node, file, loaded>>

CopyEnds(l) ==
    /\ At(l, "copying") /\ fetch[l].left = 0
    /\ fetch' = [fetch EXCEPT ![l] = [Abandoned(l) EXCEPT !.at = "hashing"]]
    /\ UNCHANGED <<node, file, loaded, disturbed>>

(* Seeded fault: the hash is not compared.                                  *)
ValidateNothing(l) ==
    /\ At(l, "hashing")
    /\ Goto(l, "permitting")
    /\ UNCHANGED <<node, file, loaded, disturbed>>

(* get_file_hash of what is under that name now, which may be another       *)
(* fetch's; without a file, or when reading it fails, it is an error.       *)
Validate(l) ==
    /\ At(l, "hashing")
    /\ \/ /\ file[fetch[l].slice].exists
          /\ Goto(l, IF Whole(fetch[l].slice) THEN "permitting" ELSE "removing")
          /\ UNCHANGED disturbed
       \/ /\ fetch' = [fetch EXCEPT ![l] = Retried(l)]
          /\ disturbed' = DisturbedIf(l, TRUE)
    /\ UNCHANGED <<node, file, loaded>>

(* remove_file: those that have it open write on into a file without name.  *)
Remove(l) ==
    /\ At(l, "removing")
    /\ file' = [file EXCEPT ![fetch[l].slice] = NoFile]
    /\ fetch' = [m \in Loaders |->
                   IF m = l THEN Retried(l)
                   ELSE IF fetch[m].slice = fetch[l].slice
                        THEN [fetch[m] EXCEPT !.linked = FALSE]
                        ELSE fetch[m]]
    /\ UNCHANGED <<node, loaded, disturbed>>

Permit(l) ==
    /\ At(l, "permitting")
    /\ fetch' = [fetch EXCEPT ![l] = IF file[fetch[l].slice].exists
                                     THEN [@ EXCEPT !.at = "served"]
                                     ELSE Retried(l)]
    /\ UNCHANGED <<node, file, loaded, disturbed>>

(* The loader opens the path it was given; whatever comes of it, it asks    *)
(* for the next slice.                                                      *)
Load(l) ==
    /\ At(l, "served")
    /\ loaded' = loaded \cup {<<fetch[l].slice, Whole(fetch[l].slice)>>}
    /\ fetch' = [fetch EXCEPT ![l] = [NoFetch EXCEPT !.made = fetch[l].made]]
    /\ UNCHANGED <<node, file, disturbed>>

Answer(l) ==
    \/ Check(l) \/ Found(l) \/ OpenPull(l) \/ Create(l)
    \/ CopyChunk(l) \/ CopyBreaks(l) \/ CopyEnds(l)
    \/ Validate(l) \/ Remove(l) \/ Permit(l)

FetchNext ==
    \/ \E d \in Providers : NodeChanges(d)
    \/ \E l \in Loaders : \/ \E s \in Hashes : Ask(l, s)
                          \/ AskFails(l) \/ Answer(l) \/ Load(l)

FetchSpec == FetchInit /\ [][FetchNext]_fetchVars

(* The bridge runs its tasks and libp2p does not keep a stream for ever.    *)
FetchFairSpec == FetchSpec /\ \A l \in Loaders : WF_fetchVars(Answer(l))

----------------------------------------------------------------------------
Places == {"idle", "failed", "checking", "found", "pulling", "creating",
           "permitting", "served"} \cup Writing

(* A file holds chunks only while it has a name, and only one that is being *)
(* written is open.                                                         *)
FetchTypeOK ==
    /\ node \in [Providers -> {"indexed", "changed", "missing"}]
    /\ file \in [Hashes -> [exists : BOOLEAN,
                            data : [Chunks -> {"unwritten", "right", "wrong"}]]]
    /\ fetch \in [Loaders -> [at : Places, slice : Hashes \cup {"none"},
                              retries : 0 .. MaxRetries,
                              from : {"none", "right", "wrong"},
                              left : 0 .. NumChunks, linked : BOOLEAN,
                              made : 0 .. MaxFetches]]
    /\ loaded \subseteq Hashes \X BOOLEAN
    /\ disturbed \subseteq Hashes
    /\ \A s \in Hashes : file[s].exists \/ file[s] = NoFile

(* Whatever the data nodes send, and whatever was fetched before, a slice   *)
(* is loaded whole, unless one of its downloads broke off or another fetch  *)
(* of the same slice was under way: only then has the cache a file that was *)
(* not checked against its hash.                                            *)
LoadedWholeUnlessDisturbed ==
    \A s \in Hashes : <<s, FALSE>> \in loaded => s \in disturbed

(* Every fetch is answered with a path or an error, however often data      *)
(* nodes drop its streams and other fetches take its file away.             *)
FetchesSettle ==
    \A l \in Loaders : At(l, "checking") ~> fetch[l].at \in {"served", "failed"}
=============================================================================
