------------------------------ MODULE Listing -------------------------------
(***************************************************************************)
(* The /files endpoint of the two servers: Store.List of                   *)
(* servers/go/s3store.go behind handleFiles of main.go, and Store.list of  *)
(* servers/py/s3store.py behind files() of server.py.                      *)
(*                                                                         *)
(* S3 answers a listing page by page and each page shows the bucket as it  *)
(* is at that moment: objects come, change and go between two pages.  A    *)
(* key is a number, and numbers are ordered as the keys are; an object is  *)
(* its version, which stands for its ETag, size and date.                  *)
(***************************************************************************)
EXTENDS Integers, Sequences, FiniteSets

CONSTANTS
  StoreOrder,     \* the keys in the order in which the store enumerates them
  NexusKeys,      \* keys that end in .nxs, .h5 or .hdf5, in any case
  Under,          \* the keys under each prefix
  DefaultPrefix,  \* S3_PREFIX
  NoOverride,     \* a request without a prefix, or with an empty one
  PageSize,       \* the most keys the store puts in one page
  MaxChanges,     \* bound: changes of the bucket
  MaxFailures     \* bound: pages that fail

Prefixes == DOMAIN Under
Positions == DOMAIN StoreOrder
Keys == {StoreOrder[i] : i \in Positions}

ASSUME ListingAssumption ==
  /\ StoreOrder \in Seq(Nat)
  /\ \A i, j \in Positions : StoreOrder[i] = StoreOrder[j] => i = j
  /\ NexusKeys \subseteq Keys
  /\ \A p \in Prefixes : Under[p] \subseteq Keys
  /\ DefaultPrefix \in Prefixes /\ NoOverride \notin Prefixes
  /\ PageSize \in Nat \ {0} /\ MaxChanges \in Nat /\ MaxFailures \in Nat

\* The version of a key that the bucket does not hold.
Absent == 0

VARIABLES
  bucket,     \* the version of each key
  changes,    \* changes of the bucket so far, the version of the latest
  failures,   \* pages that failed so far
  listing,    \* is the request not made ("idle"), between two pages ("pages"),
              \* answered with files ("listed") or with an error ("error")?
  override,   \* the prefix parameter of the request
  continue,   \* the continuation token: the position of the last key received
  out,        \* the files collected, and the answer when it is "listed"
  steady,     \* history: keys the bucket has held since the request was made
  seen        \* history: <<key, version>> it has held since then

listingVars ==
  <<bucket, changes, failures, listing, override, continue, out, steady, seen>>

-----------------------------------------------------------------------------
(* The store.                                                              *)

\* Positions a page that continues after a position may still show.
Ahead(prefix, after) ==
  {i \in Positions : /\ i > after
                     /\ StoreOrder[i] \in Under[prefix]
                     /\ bucket[StoreOrder[i]] # Absent}

\* The place of i among the numbers of S, and the number of S at a place.
Place(i, S) == Cardinality({j \in S : j <= i})
Nth(S, n) == CHOOSE i \in S : Place(i, S) = n

\* The first PageSize of them, one page.
OnPage(ahead) == {i \in ahead : Place(i, ahead) <= PageSize}

\* An object is written, written again, or deleted.
BucketChanges(k) ==
  /\ changes < MaxChanges
  /\ changes' = changes + 1
  /\ \E v \in {Absent, changes + 2} :
       /\ bucket[k] # v
       /\ bucket' = [bucket EXCEPT ![k] = v]
       /\ IF v = Absent THEN steady' = steady \ {k} /\ UNCHANGED seen
          ELSE seen' = seen \cup {<<k, v>>} /\ UNCHANGED steady
  /\ UNCHANGED <<failures, listing, override, continue, out>>

-----------------------------------------------------------------------------
(* The servers.                                                            *)

EffectivePrefix(asked) == IF asked = NoOverride THEN DefaultPrefix ELSE asked

MutHasNexusSuffix(k) == TRUE

HasNexusSuffix(k) == k \in NexusKeys

\* The entries of a page: the keys without a NeXus suffix are left out.
Entries(page) ==
  LET wanted == {i \in page : HasNexusSuffix(StoreOrder[i])}
      key(n) == StoreOrder[Nth(wanted, n)]
  IN [n \in 1..Cardinality(wanted) |-> [key |-> key(n), version |-> bucket[key(n)]]]

\* The files in the order of their keys.
UpTo(files, i) ==
  {j \in DOMAIN files : \/ files[j].key < files[i].key
                        \/ files[j].key = files[i].key /\ j <= i}

Sorted(files) ==
  [n \in DOMAIN files |->
     files[CHOOSE i \in DOMAIN files : Cardinality(UpTo(files, i)) = n]]

ListFiles(asked) ==
  /\ listing \in {"idle", "error"}
  /\ listing' = "pages"
  /\ override' = asked
  /\ continue' = 0
  /\ out' = <<>>
  /\ steady' = {k \in Keys : bucket[k] # Absent}
  /\ seen' = {<<k, bucket[k]>> : k \in {h \in Keys : bucket[h] # Absent}}
  /\ UNCHANGED <<bucket, changes, failures>>

MutListPage ==
  LET page == OnPage(Ahead(EffectivePrefix(override), continue))
  IN /\ listing = "pages"
     /\ out' = Sorted(Entries(page))
     /\ listing' = "listed"
     /\ UNCHANGED <<bucket, changes, failures, override, continue, steady, seen>>

\* A page arrives: its entries are appended; the answer is sorted and sent when
\* the page is the last one.
ListPage ==
  LET ahead == Ahead(EffectivePrefix(override), continue)
      page == OnPage(ahead)
      collected == out \o Entries(page)
  IN /\ listing = "pages"
     /\ IF page # ahead
        THEN /\ out' = collected
             /\ continue' = CHOOSE i \in page : \A j \in page : j <= i
             /\ UNCHANGED listing
        ELSE /\ out' = Sorted(collected)
             /\ listing' = "listed"
             /\ UNCHANGED continue
     /\ UNCHANGED <<bucket, changes, failures, override, steady, seen>>

\* A page fails: the request is answered with an error and what was collected
\* is dropped.
ListFails ==
  /\ listing = "pages"
  /\ failures < MaxFailures
  /\ failures' = failures + 1
  /\ listing' = "error"
  /\ out' = <<>>
  /\ UNCHANGED <<bucket, changes, override, continue, steady, seen>>

ListingInit ==
  /\ bucket \in [Keys -> {Absent, 1}]
  /\ changes = 0
  /\ failures = 0
  /\ listing = "idle"
  /\ override = NoOverride
  /\ continue = 0
  /\ out = <<>>
  /\ steady = {}
  /\ seen = {}

Serve == (\E asked \in Prefixes \cup {NoOverride} : ListFiles(asked)) \/ ListPage

ListingNext == Serve \/ ListFails \/ (\E k \in Keys : BucketChanges(k))

ListingSpec == ListingInit /\ [][ListingNext]_listingVars

-----------------------------------------------------------------------------
(* Properties.                                                             *)

\* The keys that the request of this client is about.
Asked == Under[IF override = NoOverride THEN DefaultPrefix ELSE override]
           \cap NexusKeys

Listed == {out[i].key : i \in DOMAIN out}

\* An answer leaves out no NeXus file that was in the bucket from the request to
\* the answer, on whichever page the store put it, whatever else came and went
\* between the pages and however many pages failed before.
ListingComplete == listing = "listed" => steady \cap Asked \subseteq Listed

\* Every file of an answer is one of those asked for, and the bucket held that
\* version of it at some time between the request and the answer.  No file is in
\* it twice and it is sorted, in whatever order the store enumerates the keys.
ListingTruthful ==
  listing = "listed" =>
    /\ \A i \in DOMAIN out :
         out[i].key \in Asked /\ <<out[i].key, out[i].version>> \in seen
    /\ \A i, j \in DOMAIN out : i < j => out[i].key < out[j].key
=============================================================================
