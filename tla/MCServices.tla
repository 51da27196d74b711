------------------------------ MODULE MCServices ------------------------------
(* Small instances of the parts that stand alone, and of the repository's  *)
(* writers for their liveness: a run of this module runs one of them.      *)
EXTENDS IngestWorker, Peer, HostileTarget, FixtureServer, CatalogCache,
        ConnectorLifecycle, GroundTruth, GroundTruthCache, SequencesExt, TLC

CONSTANTS
  Writers, Skus, Bad, NoOne, MaxCalls,
  p1, p2

VARIABLES
  part,
  sConn, sBegan, call, todo, drawn, lock, staged, sTable, nextId, clock, called,
  acked, reads, losses

storeVars  == <<sConn, sBegan, call, todo, drawn, lock, staged, sTable, nextId,
                clock, called, acked, reads, losses>>

MCFailFirst == p1 :> 1 @@ p2 :> 0
MCBatches == {b \in SeqOf(Skus \cup {Bad}, 2) :
                b # <<>> /\ IsInjective(b) /\ b # <<Bad>>}

Store  == INSTANCE CatalogStore WITH
            conn <- sConn, began <- sBegan, made <- called, table <- sTable,
            Batches <- MCBatches, MaxReads <- 0, MaxLosses <- 0

partVars == <<part, fixtureVars, storeVars, cacheVars, vars, peerVars,
              targetVars, cdcVars, streamVars, answerVars>>

Parts == {"fixture", "store", "cache", "ingest", "peer",
          "target", "cdc", "replay", "answers"}

OfFixture(A) == /\ part = "fixture" /\ A
    /\ UNCHANGED <<part, storeVars, cacheVars, vars, peerVars,
                   targetVars, cdcVars, streamVars, answerVars>>
OfStore(A) == /\ part = "store" /\ A
    /\ UNCHANGED <<part, fixtureVars, cacheVars, vars, peerVars,
                   targetVars, cdcVars, streamVars, answerVars>>
OfCache(A) == /\ part = "cache" /\ A
    /\ UNCHANGED <<part, fixtureVars, storeVars, vars, peerVars,
                   targetVars, cdcVars, streamVars, answerVars>>
OfIngest(A) == /\ part = "ingest" /\ A
    /\ UNCHANGED <<part, fixtureVars, storeVars, cacheVars, peerVars,
                   targetVars, cdcVars, streamVars, answerVars>>
OfPeer(A) == /\ part = "peer" /\ A
    /\ UNCHANGED <<part, fixtureVars, storeVars, cacheVars, vars,
                   targetVars, cdcVars, streamVars, answerVars>>
OfTarget(A) == /\ part = "target" /\ A
    /\ UNCHANGED <<part, fixtureVars, storeVars, cacheVars, vars,
                   peerVars, cdcVars, streamVars, answerVars>>
OfCdc(A) == /\ part = "cdc" /\ A
    /\ UNCHANGED <<part, fixtureVars, storeVars, cacheVars, vars,
                   peerVars, targetVars, streamVars, answerVars>>
OfReplay(A) == /\ part = "replay" /\ A
    /\ UNCHANGED <<part, fixtureVars, storeVars, cacheVars, vars,
                   peerVars, targetVars, cdcVars, answerVars>>
OfAnswers(A) == /\ part = "answers" /\ A
    /\ UNCHANGED <<part, fixtureVars, storeVars, cacheVars, vars,
                   peerVars, targetVars, cdcVars, streamVars>>

PartsInit == /\ part \in Parts
             /\ FixtureInit /\ Store!Init /\ CacheInit /\ Init /\ PeerInit
             /\ TargetInit /\ CdcInit /\ StreamInit /\ AnswersInit
             /\ part = "cdc" \/ style = CHOOSE s \in Styles : TRUE

PartsNext == \/ OfFixture(FixtureNext)
             \/ OfStore(Store!Next)
             \/ OfCache(CacheNext)
             \/ OfIngest(Next)
             \/ OfPeer(PeerNext)
             \/ OfTarget(TargetNext)
             \/ OfCdc(CdcNext)
             \/ OfReplay(StreamNext)
             \/ OfAnswers(AnswersNext)

(* The fairness of each part's specification.                              *)
PartsFairness ==
    /\ WF_partVars(OfFixture(AcceptLoop)) /\ WF_partVars(OfFixture(Join))
    /\ \A w \in Writers : /\ WF_partVars(OfStore(Store!Statement(w)))
                          /\ WF_partVars(OfStore(Store!DeadlockDetected(w)))
                          /\ WF_partVars(OfStore(Store!OwnerResets(w)))
    /\ WF_partVars(OfCache(Expire))
    /\ WF_partVars(OfCache(Commit \/ RollBack))
    /\ \A r \in Threads : WF_partVars(OfCache(Serve(r)))
    /\ WF_partVars(OfIngest(Produce)) /\ WF_partVars(OfIngest(Return))
    /\ \A c \in Consumers : WF_partVars(OfIngest(Get(c) \/ Process(c)))
    /\ WF_partVars(OfCdc(BeginRun)) /\ WF_partVars(OfCdc(TearDown))
    /\ WF_partVars(OfCdc(Main)) /\ WF_partVars(OfCdc(Stopped))
    /\ WF_partVars(OfCdc(ConnectionCloses))

PartsSpec == PartsInit /\ [][PartsNext]_partVars /\ PartsFairness

-----------------------------------------------------------------------------
(* The parts' properties keep their names, but for one that needs to know  *)
(* which part runs and one that comes from an instance.                    *)

(* Every call of upsert_products returns.                                  *)
CallsEnd == Store!CallsEnd

(* A run of the ingest worker that is not cancelled returns.               *)
IngestEnds == (part = "ingest") => WorkloadEnds

=============================================================================
