------------------------------- MODULE Loads -------------------------------
(***************************************************************************)
(* Loading a project document and the documents and assets it references.  *)
(* The writer thread reads a document's text content by content; each      *)
(* external reference is looked up, requested from the host's asset        *)
(* source, and either answered at once or left pending.  The source        *)
(* answers from any thread, at any time, in any order, and possibly twice; *)
(* an answer is only queued, and the writer installs it in a later settle. *)
(*   ExternalCompositionLoader, ExternalAssetLoader, PendingExternalLoads, *)
(*   load_document / settle_external_loads / install_external_composition, *)
(*   Document::begin and Model::load_baseline.                             *)
(* The reader's recursion is an explicit stack, top first.  Contents are   *)
(* leaves (an operator's inputs are not modelled), a text is the sequence  *)
(* of references its contents make.                                        *)
(***************************************************************************)
EXTENDS Naturals, Sequences, SequencesExt, FiniteSets, TLC

CONSTANTS
  Compositions,   \* resolved URIs of project documents
  Assets,         \* resolved URIs of images
  Root,           \* the document the host opens
  Malformed,      \* a content whose text the reader rejects
  Worlds,         \* the file systems considered: URI -> text
  DepthCap,       \* k_external_ref_depth_cap
  Installable,    \* documents the host may install by itself
  MaxRepeats,     \* bound: requests the source answers a second time
  MaxCalls        \* bound: edits and installs the host asks for

NoId == 0
RootId == 1
Ids == Nat \ {NoId}
URIs == Compositions \cup Assets
Refs == URIs \cup {Malformed}

ASSUME LoadsAssumption ==
  /\ Root \in Compositions
  /\ Compositions \cap Assets = {}
  /\ Malformed \notin URIs
  /\ Installable \subseteq Compositions
  /\ Worlds \subseteq [Compositions -> Seq(Refs)]
  /\ {DepthCap, MaxRepeats, MaxCalls} \subseteq Nat

VARIABLES
  world,          \* what the files hold; never changes
  nextId,         \* Model::allocate_id
  byUri,          \* d_by_uri: URI -> composition id, NoId for a failure
  pending,        \* d_pending: composition id -> [uri, depth]
  assetByUri,     \* d_asset_by_uri: URI -> fetch in flight
  pendingAssets,  \* d_pending_assets: fetch id -> [uri, awaiting]
  ready,          \* d_ready: answers queued, oldest first
  asked,          \* the source: request id -> [uri, level, answers]
  stack,          \* the writer's calls, innermost first
  settling,       \* d_settling: an install is in flight
  revision,       \* of the published document
  comps,          \* composition records: id -> [stamp, version]
  contents,       \* bound contents: id -> [ref, child, owner, got]
  damage,         \* contents the next frame must draw again
  calls,          \* edits and installs the host has made
  minted          \* history: every <<composition, stamp, version>> published

loadVars == <<byUri, pending, assetByUri, pendingAssets>>
docVars == <<revision, comps, contents, minted>>
hostVars == <<world, calls>>
vars == <<loadVars, docVars, hostVars, nextId, ready, asked, stack, settling, damage>>

\* One call of load_composition: the text, the next content, and how far it is.
Reading(uri, comp, depth, owed, level) ==
  [kind |-> "read", uri |-> uri, text |-> world[uri], comp |-> comp, at |-> 1,
   depth |-> depth, owed |-> owed, level |-> level,
   pc |-> "next", child |-> NoId, got |-> FALSE]

\* One call of install_external_composition: a single reference, no content.
Installing(uri) ==
  [Reading(uri, NoId, 0, {}, 0) EXCEPT !.kind = "install", !.text = <<uri>>]

\* One call of settle_external_loads.
Settling(was) == [kind |-> "settle", batch |-> <<>>, was |-> was]

top == Head(stack)
Below == Tail(stack)
TopIs(pc) == stack # <<>> /\ top.kind # "settle" /\ top.pc = pc
AtRef == TopIs("next") /\ top.at <= Len(top.text)
ref == top.text[top.at]
Resume(pc, child, got) ==
  <<[top EXCEPT !.pc = pc, !.child = child, !.got = got]>> \o Below

Without(f, x) == [y \in DOMAIN f \ {x} |-> f[y]]

\* Mutant: only the contents of the root are looked at.
Embedders_RootOnly(child) ==
  {c \in DOMAIN contents : contents[c].ref \in Compositions /\ contents[c].child = child
                             /\ contents[c].owner = RootId}

\* Contents that embed the composition (arrival_damage).
Embedders(child) ==
  {c \in DOMAIN contents : contents[c].ref \in Compositions /\ contents[c].child = child}

Init ==
  /\ world \in Worlds
  /\ nextId = 1
  /\ byUri = <<>> /\ pending = <<>> /\ assetByUri = <<>> /\ pendingAssets = <<>>
  /\ ready = <<>> /\ asked = <<>> /\ stack = <<>> /\ settling = FALSE
  /\ revision = 0 /\ comps = <<>> /\ contents = <<>> /\ damage = {}
  /\ calls = 0 /\ minted = {}

(***************************************************************************)
(* Calls that start work on the writer thread.                             *)
(***************************************************************************)
\* Mutant: the commit sink is suspended, but nothing says an install is in flight.
EnterInstall_Unmarked == settling' = settling

\* InstallScope: the edits that follow are the loader's, not the host's.
EnterInstall == settling' = TRUE

\* load_document: the root is seeded under its own URI, so that a reference
\* back to it resolves instead of loading it again.
LoadDocument ==
  /\ stack = <<>> /\ nextId = RootId
  /\ EnterInstall
  /\ nextId' = RootId + 1
  /\ byUri' = Root :> RootId
  /\ stack' = <<Reading(Root, RootId, 0, {}, 0)>>
  /\ UNCHANGED <<pending, assetByUri, pendingAssets, docVars, hostVars, ready, asked, damage>>

InstallExternalComposition(u) ==
  /\ stack = <<>> /\ nextId > RootId /\ calls < MaxCalls
  /\ EnterInstall
  /\ calls' = calls + 1
  /\ stack' = <<Installing(u)>>
  /\ UNCHANGED <<loadVars, docVars, world, nextId, ready, asked, damage>>

\* HostViewport::step on the writer thread, and Document::begin ahead of every
\* edit (the host's, or the reader's own add_content).  An answer that arrives
\* after begin has looked is left for the next settle.
BeginSettle ==
  /\ ready # <<>> /\ ~settling
  /\ stack = <<>> \/ TopIs("sink")
  /\ EnterInstall
  /\ stack' = <<Settling(settling)>> \o stack
  /\ UNCHANGED <<loadVars, docVars, hostVars, nextId, ready, asked, damage>>

\* An edit of the host, moving a layer of a composition.
Edit(c) ==
  /\ stack = <<>> /\ calls < MaxCalls /\ c \in DOMAIN comps
  /\ calls' = calls + 1
  /\ revision' = revision + 1
  /\ comps' = [comps EXCEPT ![c] = [stamp |-> revision + 1, version |-> @.version + 1]]
  /\ minted' = minted \cup {<<c, comps'[c].stamp, comps'[c].version>>}
  /\ UNCHANGED <<loadVars, contents, world, nextId, ready, asked, stack,
                 settling, damage>>

(***************************************************************************)
(* One reference: look it up, request it, see whether it was answered.     *)
(***************************************************************************)
\* A chain of references that is too long ends in an unavailable child.
Capped == top.depth >= DepthCap

ResolveCapped ==
  /\ AtRef /\ ref \in Compositions /\ Capped
  /\ stack' = Resume("sink", NoId, FALSE)
  /\ UNCHANGED <<loadVars, docVars, hostVars, nextId, ready, asked, settling, damage>>

\* Mutant: a document counts as known only once it is installed.
Known_Installed(u) == u \in DOMAIN byUri /\ byUri[u] \in DOMAIN comps \cup {NoId}

\* A URI met before shares its id, installed or still in flight, or its failure.
Known(u) == u \in DOMAIN byUri

ResolveKnown ==
  /\ AtRef /\ ref \in Compositions /\ ~Capped /\ Known(ref)
  /\ stack' = Resume("sink", byUri[ref], FALSE)
  /\ UNCHANGED <<loadVars, docVars, hostVars, nextId, ready, asked, settling, damage>>

Ask(level) ==
  /\ nextId' = nextId + 1
  /\ asked' = asked @@ (nextId :> [uri |-> ref, level |-> level, answers |-> <<>>])
  /\ stack' = Resume("asked", nextId, FALSE)

\* The depth at which the reference was reached rides on the pending entry.
PendingEntry == [uri |-> ref, depth |-> top.depth]

RequestComposition ==
  /\ AtRef /\ ref \in Compositions /\ ~Capped /\ ~Known(ref)
  /\ byUri' = (ref :> nextId) @@ byUri
  /\ pending' = (nextId :> PendingEntry) @@ pending
  /\ Ask(top.level + 1)
  /\ UNCHANGED <<assetByUri, pendingAssets, docVars, hostVars, ready, settling, damage>>

InFlight(u) == u \in DOMAIN assetByUri

JoinAsset ==
  /\ AtRef /\ ref \in Assets /\ InFlight(ref)
  /\ stack' = Resume("sink", assetByUri[ref], FALSE)
  /\ UNCHANGED <<loadVars, docVars, hostVars, nextId, ready, asked, settling, damage>>

RequestAsset ==
  /\ AtRef /\ ref \in Assets /\ ~InFlight(ref)
  /\ assetByUri' = (ref :> nextId) @@ assetByUri
  /\ pendingAssets' = (nextId :> [uri |-> ref, awaiting |-> {}]) @@ pendingAssets
  /\ Ask(top.level)
  /\ UNCHANGED <<byUri, pending, docVars, hostVars, ready, settling, damage>>

Repeated == {id \in DOMAIN asked : Len(asked[id].answers) > 1}

\* PendingExternalLoads::complete, on whatever thread the source chose.
Answer(id, ok) ==
  /\ \/ asked[id].answers = <<>>
     \/ Len(asked[id].answers) = 1 /\ Cardinality(Repeated) < MaxRepeats
  /\ asked' = [asked EXCEPT ![id].answers = Append(@, ok)]
  /\ ready' = Append(ready, [id |-> id, ok |-> ok])
  /\ UNCHANGED <<loadVars, docVars, hostVars, nextId, stack, settling, damage>>

Arrived(id) == \E i \in DOMAIN ready : ready[i].id = id
TakeArrival(id) ==
  LET i == CHOOSE i \in DOMAIN ready :
             ready[i].id = id /\ \A j \in 1..(i - 1) : ready[j].id # id
  IN  [ok |-> ready[i].ok, rest |-> RemoveAt(ready, i)]

\* The source has not answered yet: the content is built around the pending id.
Defer ==
  /\ TopIs("asked") /\ ~Arrived(top.child)
  /\ stack' = Resume("sink", top.child, FALSE)
  /\ UNCHANGED <<loadVars, docVars, hostVars, nextId, ready, asked, settling, damage>>

\* ExternalCompositionLoader::install: read the child's text, or remember that
\* the URI is unavailable.
Install(id, uri, ok, depth, owed, caller, failed) ==
  /\ stack' = IF ok
                THEN <<Reading(uri, id, depth + 1, owed, asked[id].level)>> \o caller
                ELSE failed
  /\ byUri' = IF ok THEN byUri ELSE (uri :> NoId) @@ byUri

AnsweredComposition ==
  /\ TopIs("asked") /\ ref \in Compositions /\ Arrived(top.child)
  /\ ready' = TakeArrival(top.child).rest
  /\ pending' = Without(pending, top.child)
  /\ Install(top.child, ref, TakeArrival(top.child).ok, top.depth, {},
             Resume("sink", top.child, FALSE), Resume("sink", NoId, FALSE))
  /\ UNCHANGED <<assetByUri, pendingAssets, docVars, hostVars, nextId, asked, settling, damage>>

\* take_pending_asset: the fetch and its URI go together.
TakePendingAsset(id) ==
  /\ pendingAssets' = Without(pendingAssets, id)
  /\ assetByUri' = Without(assetByUri, pendingAssets[id].uri)

AnsweredAsset ==
  /\ TopIs("asked") /\ ref \in Assets /\ Arrived(top.child)
  /\ ready' = TakeArrival(top.child).rest
  /\ TakePendingAsset(top.child)
  /\ stack' = Resume("sink", top.child, TakeArrival(top.child).ok)
  /\ UNCHANGED <<byUri, pending, docVars, hostVars, nextId, asked, settling, damage>>

(***************************************************************************)
(* The content is built: bind it into the document (the ContentSink).      *)
(***************************************************************************)
\* ExternalAssetLoader::bind: nothing to wait on when the fetch has settled.
Bind(fetch, c) ==
  pendingAssets' = IF fetch \in DOMAIN pendingAssets
                     THEN [pendingAssets EXCEPT ![fetch].awaiting = @ \cup {c}]
                     ELSE pendingAssets

Sink ==
  /\ TopIs("sink") /\ top.kind = "read"
  /\ contents' = contents @@ (nextId :> [ref |-> ref, child |-> top.child,
                                         owner |-> top.comp, got |-> top.got])
  /\ Bind(top.child, nextId)
  /\ nextId' = nextId + 1
  /\ revision' = revision + 1
  /\ stack' = <<[top EXCEPT !.at = @ + 1, !.pc = "next", !.child = NoId, !.got = FALSE]>>
                \o Below
  /\ UNCHANGED <<byUri, pending, assetByUri, comps, minted, hostVars, ready, asked, settling,
                 damage>>

(***************************************************************************)
(* The end of a text.                                                      *)
(***************************************************************************)
\* The outermost call of a load returns; InstallScope restores its entry value.
Leave == settling' = IF Below = <<>> THEN FALSE ELSE settling

\* load_baseline publishes the root as revision 0, stamped 0; any other document
\* is one ordinary transaction carrying the damage its arrival owes.
PublishedAs == IF top.comp = RootId THEN 0 ELSE revision + 1

Commit ==
  /\ TopIs("next") /\ top.kind = "read" /\ top.at > Len(top.text)
  /\ comps' = (top.comp :> [stamp |-> PublishedAs, version |-> 0]) @@ comps
  /\ minted' = minted \cup {<<top.comp, PublishedAs, 0>>}
  /\ revision' = PublishedAs
  /\ damage' = damage \cup top.owed
  /\ stack' = Below
  /\ Leave
  /\ UNCHANGED <<loadVars, contents, hostVars, nextId, ready, asked>>

\* A content the reader rejects fails its whole document.  The contents bound
\* so far stay, and the caller sees an unavailable child.
Fail ==
  /\ AtRef /\ ref = Malformed
  /\ byUri' = IF top.comp = RootId THEN byUri ELSE (top.uri :> NoId) @@ byUri
  /\ stack' = IF Below # <<>> /\ Head(Below).kind # "settle"
                THEN <<[Head(Below) EXCEPT !.child = NoId]>> \o Tail(Below)
                ELSE Below
  /\ Leave
  /\ UNCHANGED <<pending, assetByUri, pendingAssets, docVars, hostVars, nextId, ready, asked,
                 damage>>

\* install_external_composition returns the id; the host binds it as it likes.
ReturnInstalled ==
  /\ TopIs("sink") /\ top.kind = "install"
  /\ stack' = Below
  /\ Leave
  /\ UNCHANGED <<loadVars, docVars, hostVars, nextId, ready, asked, damage>>

(***************************************************************************)
(* settle_external_loads: loop until nothing is queued.                    *)
(***************************************************************************)
InSettle == stack # <<>> /\ top.kind = "settle"
arrival == Head(top.batch)
Consume == <<[top EXCEPT !.batch = Tail(@)]>> \o Below

\* Mutant: the queue is copied, not swapped.
TakeReady_Copies ==
  /\ InSettle /\ top.batch = <<>> /\ ready # <<>>
  /\ stack' = <<[top EXCEPT !.batch = ready]>> \o Below
  /\ UNCHANGED <<loadVars, docVars, hostVars, nextId, asked, settling, damage, ready>>

TakeReady ==
  /\ InSettle /\ top.batch = <<>> /\ ready # <<>>
  /\ stack' = <<[top EXCEPT !.batch = ready]>> \o Below
  /\ ready' = <<>>
  /\ UNCHANGED <<loadVars, docVars, hostVars, nextId, asked, settling, damage>>

EndSettle ==
  /\ InSettle /\ top.batch = <<>> /\ ready = <<>>
  /\ stack' = Below
  /\ settling' = top.was
  /\ UNCHANGED <<loadVars, docVars, hostVars, nextId, ready, asked, damage>>

\* One damage-only transaction when the bytes decode, nothing at all otherwise.
SettleAsset ==
  /\ InSettle /\ top.batch # <<>> /\ arrival.id \in DOMAIN pendingAssets
  /\ TakePendingAsset(arrival.id)
  /\ LET told == IF arrival.ok THEN pendingAssets[arrival.id].awaiting ELSE {}
     IN  /\ contents' = [c \in DOMAIN contents |->
                          IF c \in told THEN [contents[c] EXCEPT !.got = TRUE] ELSE contents[c]]
         /\ damage' = damage \cup told
         /\ revision' = IF told = {} THEN revision ELSE revision + 1
  /\ stack' = Consume
  /\ UNCHANGED <<byUri, pending, comps, minted, hostVars, nextId, ready, asked, settling>>

SettleComposition ==
  /\ InSettle /\ top.batch # <<>> /\ arrival.id \in DOMAIN pending
  /\ pending' = Without(pending, arrival.id)
  /\ Install(arrival.id, pending[arrival.id].uri, arrival.ok, pending[arrival.id].depth,
             Embedders(arrival.id), Consume, Consume)
  /\ UNCHANGED <<assetByUri, pendingAssets, docVars, hostVars, nextId, ready, asked, settling,
                 damage>>

\* A second answer finds nothing pending and installs nothing.
SettleDuplicate ==
  /\ InSettle /\ top.batch # <<>>
  /\ arrival.id \notin DOMAIN pendingAssets \cup DOMAIN pending
  /\ stack' = Consume
  /\ UNCHANGED <<loadVars, docVars, hostVars, nextId, ready, asked, settling, damage>>

\* A frame of the viewport draws what is damaged.
Frame ==
  /\ damage # {}
  /\ damage' = {}
  /\ UNCHANGED <<loadVars, docVars, hostVars, nextId, ready, asked, stack, settling>>

Resolve == \/ ResolveCapped \/ ResolveKnown \/ RequestComposition \/ JoinAsset \/ RequestAsset
           \/ Defer \/ AnsweredComposition \/ AnsweredAsset
Read == Resolve \/ Sink \/ Commit \/ Fail \/ ReturnInstalled
Settle == TakeReady \/ EndSettle \/ SettleAsset \/ SettleComposition \/ SettleDuplicate

Next ==
  \/ LoadDocument \/ BeginSettle \/ Read \/ Settle \/ Frame
  \/ \E u \in Installable : InstallExternalComposition(u)
  \/ \E c \in DOMAIN comps : Edit(c)
  \/ \E id \in DOMAIN asked, ok \in BOOLEAN : Answer(id, ok)

Spec == Init /\ [][Next]_vars

\* The writer thread runs, and the host's frame loop settles what has arrived.
FairSpec == Spec /\ WF_vars(Read) /\ WF_vars(Settle) /\ WF_vars(BeginSettle)

(***************************************************************************)
(* Properties.                                                             *)
(***************************************************************************)
ReadingFrames ==
  {f \in Range(stack) : f.kind # "settle"}

\* Every map of the load state has its type, and the two asset maps, kept
\* together by add_pending_asset and take_pending_asset, are inverse.
TypeOK ==
  /\ nextId \in Ids /\ settling \in BOOLEAN /\ revision \in Nat
  /\ DOMAIN byUri \subseteq Compositions /\ Range(byUri) \subseteq 0..(nextId - 1)
  /\ DOMAIN pending \cap DOMAIN pendingAssets = {}
  /\ DOMAIN pending \cup DOMAIN pendingAssets \subseteq DOMAIN asked
  /\ \A id \in DOMAIN pending : pending[id].uri \in Compositions /\ pending[id].depth < DepthCap
  /\ \A u \in Assets, f \in 1..(nextId - 1) :
       (u \in DOMAIN assetByUri /\ assetByUri[u] = f)
         <=> (f \in DOMAIN pendingAssets /\ pendingAssets[f].uri = u)
  /\ damage \subseteq DOMAIN contents

WellFormed(id) == asked[id].uri \in Assets \/ Malformed \notin Range(world[asked[id].uri])
InProgress(id) == \E f \in ReadingFrames : f.comp = id

\* Every content ends up showing what the FIRST answer to its request said,
\* however late the answer came, however many contents share the request and
\* whatever is answered again: until then the content is on the list of the
\* request it waits for (AssetEntry::awaiting) or holds the id under which the
\* child will appear, and afterwards it is resolved exactly when there was
\* something to resolve it with.  No content waits for an answer that has been
\* consumed.
AnswersApplied ==
  \A c \in DOMAIN contents :
    LET id == contents[c].child IN
    CASE contents[c].ref \in Assets ->
           IF id \in DOMAIN pendingAssets
             THEN c \in pendingAssets[id].awaiting /\ ~contents[c].got
             ELSE contents[c].got = asked[id].answers[1]
      [] contents[c].ref \in Compositions /\ id \notin {NoId, RootId} ->
           IF id \in DOMAIN pending \/ InProgress(id)
             THEN id \notin DOMAIN comps
             ELSE id \in DOMAIN comps <=> (asked[id].answers[1] /\ WellFormed(id))
      [] OTHER -> TRUE

\* A document is requested once however many references and cycles lead to it
\* and however long its answer takes, and an asset never twice at a time
\* (dedup on resolved identity, recorded before the fetch).
OneRequest ==
  \A i, j \in DOMAIN asked :
    i # j /\ asked[i].uri = asked[j].uri
      => /\ asked[i].uri \in Assets
         /\ ~({i, j} \subseteq DOMAIN pendingAssets)

\* No document is reached through a chain of more than DepthCap references,
\* even when the chain was followed across settles, each on a fresh stack
\* (k_external_ref_depth_cap and the depth carried by a pending entry).
ChainCapped ==
  \A id \in DOMAIN asked : asked[id].uri \in Compositions => asked[id].level <= DepthCap

\* Requests stay sound: none is made twice, none is made beyond the cap, and the
\* maps that find a request again by address and by id agree.
RequestsSound == TypeOK /\ OneRequest /\ ChainCapped


Resolved(c) == IF contents[c].ref \in Assets THEN contents[c].got
               ELSE contents[c].child \in DOMAIN comps

\* Compositions the root shows, through the contents that embed them.
Shown ==
  {x \in DOMAIN comps :
     /\ RootId \in DOMAIN comps
     /\ \A S \in SUBSET DOMAIN comps :
          (/\ RootId \in S
           /\ \A c \in DOMAIN contents :
                contents[c].owner \in S /\ contents[c].child \in DOMAIN comps
                  => contents[c].child \in S)
          => x \in S}

\* When a content that is on screen as a hole becomes complete, the same commit
\* damages it, so that the hole is drawn again: the damage of an arrival, taken
\* before the child's text is read, misses no content that shows it
\* (arrival_damage, settle_asset_arrival).
HolesRedrawn ==
  [][\A c \in DOMAIN contents :
       (contents[c].owner \in Shown /\ ~Resolved(c) /\ Resolved(c)') => (c \in damage')]_vars

\* Everything the source has answered is installed, and the settle loop ends:
\* cycles of documents that all answer late do not keep it going (the loop to
\* quiescence of settle_external_loads).
SettlesQuiesce == []<>(stack = <<>> /\ ready = <<>>)

\* Two states of one composition never carry the same stamp, which is its part
\* of every cache key (Model::load_baseline).
StampsIdentify ==
  \A m, n \in minted : m[1] = n[1] /\ m[2] = n[2] => m = n
=============================================================================
