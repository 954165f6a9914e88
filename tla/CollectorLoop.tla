--------------------------- MODULE CollectorLoop ---------------------------
(***************************************************************************)
(* The Moomoo dashboard collector: run_moomoo_snapshot_loop and what it    *)
(* calls in moomoo_snapshot.py, the events of moomoo_compat.py, the bulk   *)
(* request of publisher.py, and what CollectorState.ingest keeps of it.    *)
(*                                                                         *)
(* A contract is its option code; a chain, a price or a greek is not       *)
(* modelled, and a spot is none, bad (not positive) or good.  Provider and *)
(* API are the environment: a request of either may fail in every way the  *)
(* code tells apart.                                                       *)
(***************************************************************************)
EXTENDS Naturals, FiniteSets, Sequences

CONSTANTS
  Universe,       \* the enabled symbols in their order, a sequence
  Compatible,     \* HEATMAP_COMPATIBILITY_SYMBOLS
  SPX,
  Proxied,        \* the symbols with a spot proxy and no manual spot
  Inferred,       \* the symbols with infer_spot_from_options
  OptionCodes, SymbolOf,
  Struck,         \* the codes with a positive strike, the only ones that go out
  Chunk,          \* SNAPSHOT_CODE_LIMIT
  Allowed,        \* the requests per cycle the rate limit allows
  MaxDay,         \* bound: expiries
  MaxStarts       \* bound: times the operator starts it

Symbols == {Universe[i] : i \in DOMAIN Universe}
CodesOf(s) == {c \in OptionCodes : SymbolOf[c] = s}

ASSUME UniverseAssumption ==
  /\ Universe \in Seq(Symbols) /\ Compatible \subseteq Symbols /\ SPX \in Compatible
  /\ Proxied \subseteq Symbols /\ Inferred \subseteq Symbols
  /\ SymbolOf \in [OptionCodes -> Symbols] /\ IsFiniteSet(OptionCodes)
  /\ Struck \subseteq OptionCodes
ASSUME NumberAssumption ==
  {Chunk, MaxDay, MaxStarts} \subseteq Nat \ {0} /\ Allowed \in Nat

VARIABLES
  today,          \* resolve_moomoo_target_expiry(now)
  stage, starts,
  want,           \* the target expiry of this cycle
  context,        \* the snapshot context: its expiry (0: None) and codes
  found,          \* the spot of each symbol's discovery
  spot,           \* the spot of each symbol in this cycle
  left,           \* the codes still to request
  got, twice,     \* the codes returned, and whether one came twice
  said,           \* history: the status of SPX in the last batch
  health,         \* the API: status of the collector's last health event
  shown           \* the API: the expiry and codes of each symbol's last ticks

cycle == <<want, spot, left, got, twice>>
loopVars == <<today, stage, starts, cycle, context, found, said, health, shown>>

Expiry == 1 .. MaxDay
Spot == {"none", "bad", "good"}
Nothing == [expiry |-> 0, rows |-> {}]

\* chunked and estimate_snapshot_request_rate.
Requests(n) == (n + Chunk - 1) \div Chunk + (IF Proxied = {} THEN 0 ELSE 1)
WithinLimit == Requests(Cardinality(context.codes)) <= Allowed

\* What a cycle has found is gone when it ends.
EndCycle ==
  /\ want' = 1 /\ spot' = [s \in Symbols |-> "none"]
  /\ left' = {} /\ got' = {} /\ twice' = FALSE

LoopInit ==
  /\ today = 1 /\ stage = "top" /\ starts = 1 /\ want = 1
  /\ context = [expiry |-> 0, codes |-> {}] /\ found = [s \in Symbols |-> "none"]
  /\ spot = found /\ left = {} /\ got = {} /\ twice = FALSE
  /\ said = "none" /\ health = "none" /\ shown = [s \in Symbols |-> Nothing]

\* The target moves to the next weekday at 16:05, whatever the loop does.
Roll ==
  /\ today < MaxDay /\ today' = today + 1
  /\ UNCHANGED <<stage, starts, cycle, context, found, said, health, shown>>

\* The top of the loop: the context is kept while the target stays.
RefreshOnce == context.expiry = 0
RefreshNeeded == context.expiry # today
Top ==
  /\ stage = "top" /\ want' = today
  /\ stage' = IF RefreshNeeded THEN "discover" ELSE "spots"
  /\ UNCHANGED <<today, starts, context, found, spot, left, got, twice, said, health, shown>>

\* _discover_snapshot_context: a symbol without a spot has no contracts, and
\* one whose chain cannot be read, or has no row of the expiry, has none
\* either; each is left with a warning.
Discover ==
  /\ stage = "discover" /\ stage' = "spots"
  /\ found' \in [Symbols -> Spot]
  /\ \E read \in SUBSET Symbols :
       context' = [expiry |-> want,
                   codes |-> {c \in OptionCodes :
                                found'[SymbolOf[c]] # "none" /\ SymbolOf[c] \in read}]
  /\ UNCHANGED <<today, starts, cycle, said, health, shown>>

\* _discoveries_with_latest_proxy_spots, and then no request at all when the
\* context is over the rate limit.
Spots ==
  /\ stage = "spots" /\ stage' = "collect"
  /\ \E fresh \in [Symbols -> Spot] :
       /\ \A s \in Symbols \ Proxied : fresh[s] = "none"
       /\ spot' = [s \in Symbols |-> IF fresh[s] = "none" THEN found[s] ELSE fresh[s]]
  /\ left' = (IF WithinLimit THEN context.codes ELSE {})
  /\ got' = {} /\ twice' = FALSE
  /\ UNCHANGED <<today, starts, want, context, found, said, health, shown>>

LeftAll(chunk) == left
LeftAfter(chunk) == left \ chunk

\* A request for the next chunk: it fails, or returns some of its codes, one
\* perhaps twice; unknown codes are passed over.
Collect ==
  /\ stage = "collect" /\ left # {}
  /\ \E chunk \in SUBSET left :
       /\ Cardinality(chunk) = (IF Cardinality(left) < Chunk THEN Cardinality(left) ELSE Chunk)
       /\ left' = LeftAfter(chunk)
       /\ \E back \in SUBSET chunk :
            /\ got' = got \cup back
            /\ \E again \in {FALSE, back # {}} : twice' = (twice \/ again)
  /\ UNCHANGED <<today, stage, starts, want, context, found, spot, said, health, shown>>

\* _infer_spot_from_option_pairs, where a symbol has the pairs for it.
Infer ==
  /\ stage = "collect" /\ left = {} /\ stage' = "publish"
  /\ \E paired \in SUBSET {s \in Inferred : got \cap CodesOf(s) \cap Struck # {}} :
       spot' = [s \in Symbols |-> IF s \in paired THEN "good" ELSE spot[s]]
  /\ UNCHANGED <<today, starts, want, context, found, left, got, twice, said, health, shown>>

\* The status of the result.
StatusAnyRows == IF got # {} /\ ~twice THEN "connected" ELSE "degraded"
Status == IF got # {} /\ got = context.codes /\ ~twice THEN "connected" ELSE "degraded"

\* _symbol_publish_status
SymbolStatus(s) ==
  IF Status = "connected" /\ spot[s] = "good" /\ got \cap CodesOf(s) # {}
  THEN "connected" ELSE "degraded"

\* _publish_moomoo_compatibility_snapshots: the symbols that have events,
\* and those of their rows that go out with them.
Published(s) == s \in Compatible /\ (s = SPX \/ got \cap CodesOf(s) # {})
Rows(s) ==
  IF Published(s) /\ spot[s] # "none" THEN got \cap CodesOf(s) \cap Struck ELSE {}

\* CollectorState.ingest, event after event: the health of a collector is
\* the last one of the batch, whatever its symbol; ticks add up by contract.
LastPublished ==
  CHOOSE i \in DOMAIN Universe :
    Published(Universe[i]) /\ \A j \in DOMAIN Universe : Published(Universe[j]) => j <= i
KeptNothing(s) == {}
Kept(s) == IF shown[s].expiry = context.expiry THEN shown[s].rows ELSE {}
Ingest ==
  /\ health' = SymbolStatus(Universe[LastPublished])
  /\ shown' = [s \in Symbols |->
       IF Rows(s) = {} THEN shown[s]
       ELSE [expiry |-> context.expiry,
             rows |-> Rows(s) \cup Kept(s)]]

\* publish_events_bulk, accepted: the cycle ends and the loop sleeps.
Accepted == said' = SymbolStatus(SPX) /\ Ingest
Publish ==
  /\ stage = "publish" /\ stage' = "asleep" /\ Accepted /\ EndCycle
  /\ UNCHANGED <<today, starts, context, found>>

\* Refused, unreachable, or its answer lost: nothing tells whether it was
\* applied, the exception leaves the loop, and the process exits with 1.
Exit ==
  /\ stage' = "exited" /\ EndCycle
  /\ context' = [expiry |-> 0, codes |-> {}] /\ found' = [s \in Symbols |-> "none"]
PublishFails ==
  /\ stage = "publish" /\ Exit
  /\ Accepted \/ UNCHANGED <<said, health, shown>>
  /\ UNCHANGED <<today, starts>>

\* A call of the provider raises: the same end.
ProviderRaises ==
  /\ stage \in {"discover", "spots", "collect"} /\ Exit
  /\ UNCHANGED <<today, starts, said, health, shown>>

\* sleep(max(0, interval - elapsed)), the cadence slower out of hours.
WakeUp ==
  /\ stage = "asleep" /\ stage' = "top"
  /\ UNCHANGED <<today, starts, cycle, context, found, said, health, shown>>

\* The operator starts the collector again.
Start ==
  /\ stage = "exited" /\ starts < MaxStarts /\ starts' = starts + 1 /\ stage' = "top"
  /\ UNCHANGED <<today, cycle, context, found, said, health, shown>>

Loop == Top \/ Discover \/ Spots \/ Collect \/ Infer \/ Publish \/ WakeUp
LoopNext == Loop \/ Roll \/ PublishFails \/ ProviderRaises \/ Start

LoopSpec == LoopInit /\ [][LoopNext]_loopVars
\* The process runs; the clock, the failures and the operator are free.
FairLoopSpec == LoopSpec /\ WF_loopVars(Loop)

(***************************************************************************)
(* Properties.                                                             *)
(***************************************************************************)
LoopTypeOK ==
  /\ today \in Expiry /\ want \in 1 .. today /\ starts \in 1 .. MaxStarts
  /\ stage \in {"top", "discover", "spots", "collect", "publish", "asleep", "exited"}
  /\ context \in [expiry : 0 .. today, codes : SUBSET OptionCodes]
  /\ found \in [Symbols -> Spot] /\ spot \in [Symbols -> Spot]
  /\ left \subseteq OptionCodes /\ got \subseteq OptionCodes /\ left \cap got = {}
  /\ twice \in BOOLEAN
  /\ {said, health} \subseteq {"none", "connected", "degraded"}
  /\ shown \in [Symbols -> [expiry : 0 .. MaxDay, rows : SUBSET OptionCodes]]

\* A symbol is called connected only in a cycle that brought every code of
\* the context, each once, and a usable spot, and all of its codes with a strike
\* go out: at that instant all parts are of the expiry wanted at the top of
\* the cycle.
ConnectedIsWhole ==
  stage = "publish" =>
    /\ context.expiry = want
    /\ \A s \in Symbols : Published(s) /\ SymbolStatus(s) = "connected" =>
         /\ Rows(s) = context.codes \cap CodesOf(s) \cap Struck
         /\ got = context.codes /\ got \cap CodesOf(s) # {} /\ ~twice
         /\ spot[s] = "good"

\* The expiry shown for a symbol never goes back, through rollovers, exits
\* and restarts, and within an expiry no code that was shown is lost.
ShownAdvances ==
  [][\A s \in Symbols :
       \/ shown'[s].expiry > shown[s].expiry
       \/ shown'[s].expiry = shown[s].expiry /\ shown[s].rows \subseteq shown'[s].rows]_loopVars

\* Whatever fails for single symbols, a loop that goes on takes up a new
\* target: it does not go on publishing the old expiry.
RollsOver ==
  \A e \in Expiry : (today = e /\ stage # "exited")
                   ~> (today # e \/ stage = "exited" \/ context.expiry = e)

\* A degraded SPX degrades the collector's health, as the test
\* test_publish_spx_compatibility_snapshot_degrades_health_for_non_finite_spx_spot
\* has it: after a batch in which SPX was degraded the API does not report
\* the collector as connected.
DegradedIsShown == said = "degraded" => health # "connected"
=============================================================================
