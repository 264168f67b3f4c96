--------------------------- MODULE CorpusReaders ---------------------------
(***************************************************************************)
(* The readers of the knowledge base while builders write it:              *)
(*   retrieval/hybrid_retriever.py  keeps a copy of the corpus and loads   *)
(*                                  it again when the revision has changed *)
(*   retrieval/service.py           RAGService queries the collection it   *)
(*                                  opened at start and caches results     *)
(*                                  under the revision it read before      *)
(*                                                                         *)
(* A query is "everything": what matters is which corpus an answer comes   *)
(* from.  The revision, the collection and the cache are read in separate  *)
(* steps.                                                                  *)
(***************************************************************************)
EXTENDS KnowledgeStore

CONSTANTS Questions,      \* retrievals that may be under way together
          ManifestCount,  \* document_count of the index manifest
          RefreshAttempts,
          None

ASSUME ReadersAssumption ==
    RefreshAttempts \in Nat \ {0} /\ None \notin Nat \cup {"index", "boot"}

VARIABLES
    corpus, corpusRevision,  \* HybridRetriever's copy and its _revision
    refresh,                 \* the refresh under way, under _corpus_lock
    service,                 \* RAGService: collection handle and boot corpus
    ask,                     \* each retrieval: revision read, result so far
    cache                    \* _RETRIEVAL_CACHE

readerVars == <<corpus, corpusRevision, refresh, service, ask, cache>>
vars == <<storeVars, readerVars>>

NoRefresh == [revision |-> None, attempt |-> 0, handle |-> 0]
NoService == [up |-> FALSE, handle |-> 0, boot |-> {}]
NoAsk     == [revision |-> None, origin |-> None, found |-> {}]

Init ==
    /\ StoreInit
    /\ corpus = {}
    /\ corpusRevision = None
    /\ refresh = NoRefresh
    /\ service = NoService
    /\ ask = [q \in Questions |-> NoAsk]
    /\ cache = {}

-----------------------------------------------------------------------------
(* HybridRetriever.retrieve, up to the snapshot it searches.               *)

(* The first use constructs the retriever, which is the same as a refresh  *)
(* except that a missing collection raises.                                *)
ReadRevision ==
    /\ refresh = NoRefresh
    /\ revision # corpusRevision
    /\ corpusRevision = None => exists
    /\ refresh' = [revision |-> revision, attempt |-> 1, handle |-> 0]
    /\ UNCHANGED <<corpus, corpusRevision, service, ask, cache, storeVars>>

GetCollection ==
    /\ refresh # NoRefresh /\ refresh.handle = 0
    /\ exists
    /\ refresh' = [refresh EXCEPT !.handle = generation]
    /\ UNCHANGED <<corpus, corpusRevision, service, ask, cache, storeVars>>

LoadDocuments ==
    /\ refresh # NoRefresh
    /\ exists /\ refresh.handle = generation
    /\ corpus' = stored
    /\ corpusRevision' = refresh.revision
    /\ refresh' = NoRefresh
    /\ UNCHANGED <<service, ask, cache, storeVars>>

(* NotFoundError from either call: once more, and after the last attempt   *)
(* answer from nothing until the revision changes.                         *)
CollectionIsMissing ==
    /\ refresh # NoRefresh
    /\ IF refresh.handle = 0 THEN ~exists
                             ELSE ~(exists /\ refresh.handle = generation)
    /\ IF refresh.attempt < RefreshAttempts
       THEN /\ refresh' = [refresh EXCEPT !.attempt = @ + 1, !.handle = 0]
            /\ UNCHANGED <<corpus, corpusRevision>>
       ELSE /\ corpus' = {}
            /\ corpusRevision' = refresh.revision
            /\ refresh' = NoRefresh
    /\ UNCHANGED <<service, ask, cache, storeVars>>

-----------------------------------------------------------------------------
(* RAGService                                                              *)

(* The constructor refuses a collection whose size is not the manifest's,  *)
(* and builds its term and lexical indexes from it.  A new process has an  *)
(* empty cache.                                                            *)
StartService ==
    /\ ~service.up
    /\ exists /\ Cardinality(stored) = ManifestCount
    /\ service' = [up |-> TRUE, handle |-> generation, boot |-> stored]
    /\ UNCHANGED <<corpus, corpusRevision, refresh, ask, cache, storeVars>>

StopService ==
    /\ service.up
    /\ service' = NoService
    /\ ask' = [q \in Questions |-> NoAsk]
    /\ cache' = {}
    /\ UNCHANGED <<corpus, corpusRevision, refresh, storeVars>>

(* A hit is answered at once and changes nothing.                          *)
Ask(q) ==
    /\ service.up
    /\ ask[q] = NoAsk
    /\ \A e \in cache : e.revision # revision
    /\ ask' = [ask EXCEPT ![q].revision = revision]
    /\ UNCHANGED <<corpus, corpusRevision, refresh, service, cache, storeVars>>

QueryCollection(q) ==
    /\ ask[q].revision # None /\ ask[q].origin = None
    /\ exists /\ service.handle = generation
    /\ ask' = [ask EXCEPT ![q].origin = "index", ![q].found = stored]
    /\ UNCHANGED <<corpus, corpusRevision, refresh, service, cache, storeVars>>

(* A course term in the question, or an embedding that cannot be made:     *)
(* the answer comes from the indexes built at start.                       *)
LookUpAtBoot(q) ==
    /\ ask[q].revision # None /\ ask[q].origin = None
    /\ ask' = [ask EXCEPT ![q].origin = "boot", ![q].found = service.boot]
    /\ UNCHANGED <<corpus, corpusRevision, refresh, service, cache, storeVars>>

(* The collection was deleted after the start, or there is neither an      *)
(* embedding nor a lexical match: the retrieval raises.                    *)
QueryFails(q) ==
    /\ ask[q].revision # None /\ ask[q].origin = None
    /\ ask' = [ask EXCEPT ![q] = NoAsk]
    /\ UNCHANGED <<corpus, corpusRevision, refresh, service, cache, storeVars>>

(* Mutant of StoreResult: the key is made when the result is stored.       *)
StoreResultUnderNewKey(q) ==
    /\ ask[q].origin # None
    /\ cache' = IF ask[q].found = {}
                THEN cache ELSE {[ask[q] EXCEPT !.revision = revision]}
    /\ ask' = [ask EXCEPT ![q] = NoAsk]
    /\ UNCHANGED <<corpus, corpusRevision, refresh, service, storeVars>>

(* Nothing empty is cached; an entry of the same key is replaced.  An      *)
(* entry under a revision that is gone is never asked for again and is     *)
(* left out.                                                               *)
StoreResult(q) ==
    /\ ask[q].origin # None
    /\ cache' = IF ask[q].found = {} \/ ask[q].revision # revision
                THEN cache ELSE {ask[q]}
    /\ ask' = [ask EXCEPT ![q] = NoAsk]
    /\ UNCHANGED <<corpus, corpusRevision, refresh, service, storeVars>>

(* Time to live, or the least recently used entry of a full cache.         *)
Evict(e) ==
    /\ cache' = cache \ {e}
    /\ UNCHANGED <<corpus, corpusRevision, refresh, service, ask, storeVars>>

ReaderNext ==
    \/ ReadRevision \/ GetCollection \/ LoadDocuments \/ CollectionIsMissing
    \/ StartService \/ StopService
    \/ \E q \in Questions :
          Ask(q) \/ QueryCollection(q) \/ LookUpAtBoot(q) \/ QueryFails(q)
          \/ StoreResult(q)
    \/ \E e \in cache : Evict(e)

Next ==
    \/ StoreNext /\ UNCHANGED readerVars
    \/ ReaderNext

Spec == Init /\ [][Next]_vars

-----------------------------------------------------------------------------

TypeOK ==
    /\ StoreTypeOK
    /\ corpus \subseteq Chunks /\ service.boot \subseteq Chunks
    /\ corpusRevision \in 0..revision \cup {None}
    /\ refresh.attempt \in 0..RefreshAttempts
    /\ \A e \in cache : e.revision \in 0..revision /\ e.found \subseteq Chunks

(* Nobody writes, and nobody has died in the middle of a write.            *)
Quiet == ~halfWritten /\ \A b \in Builders : ~Inside(b)

(* Once a write is over, a reader that trusts the current revision has     *)
(* what the write left: a corpus loaded in the middle of it, or found      *)
(* missing, belongs to a revision that is gone.                            *)
LoadedCorpusIsCurrent ==
    Quiet /\ corpusRevision = revision => corpus = stored

(* The same for the cache: a result computed from the collection while it  *)
(* was written is not served for the finished one.                         *)
CachedResultsAreCurrent ==
    Quiet => \A e \in cache :
                e.revision = revision /\ e.origin = "index" => e.found = stored

(* Both readers of the knowledge base, the hybrid retriever with its       *)
(* loaded corpus and the service with its result cache, answer from what   *)
(* the finished write left, never from the middle of it.                   *)
ReadersSeeTheCorpus == TypeOK /\ LoadedCorpusIsCurrent /\ CachedResultsAreCurrent

=============================================================================
