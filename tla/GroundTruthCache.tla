--------------------------- MODULE GroundTruthCache ---------------------------
(***************************************************************************)
(* The cache of the reference answers: load_or_compute of                  *)
(* 03-data-modeling/harness/ground_truth.py, called by validators that may *)
(* overlap each other and the generator (harness/events.py, main), which   *)
(* writes the files the answers are computed from one after the other.     *)
(* A file's content is the generation it belongs to, 0 while it is written *)
(* or when its writer was killed.                                          *)
(***************************************************************************)
EXTENDS Naturals

CONSTANTS
  Validators,
  MaxGenerations,  \* bound: generations
  MaxKills         \* bound: processes killed

VARIABLES
  version,                \* generations begun
  events, clients, meta,  \* events.jsonl, clients.jsonl, events.meta.json
  gen,      \* generator: "idle", or the file it is writing
  cache,    \* ground_truth.json: its state, the sha in it, the generations
            \* its answers were computed from, and whether beside a generator
  pc,       \* pc[v]: where v's call is
  known,    \* known[v]: the sha its call found first
  read,     \* read[v]: the generations its answers are computed from
  stamp,    \* stamp[v]: the sha it writes beside them
  alone,    \* alone[v]: no generator has run since its call began
  answer,   \* answer[v]: what its last call returned
  kills

files == <<version, events, clients, meta, gen>>
calls == <<pc, known, read, stamp, alone, answer>>
answerVars  == <<files, cache, calls, kills>>

Nothing == [of |-> <<0, 0>>, alone |-> FALSE]
Absent  == [state |-> "absent", stamp |-> 0, of |-> <<0, 0>>, alone |-> FALSE]
Torn    == [Absent EXCEPT !.state = "torn"]

AnswersInit == /\ version = 1 /\ events = 1 /\ clients = 1 /\ meta = 1 /\ gen = "idle"
               /\ cache = Absent /\ kills = 0
               /\ pc = [v \in Validators |-> "idle"]
               /\ known = [v \in Validators |-> 0] /\ stamp = known
               /\ read = [v \in Validators |-> <<0, 0>>]
               /\ alone = [v \in Validators |-> FALSE]
               /\ answer = [v \in Validators |-> Nothing]

-----------------------------------------------------------------------------
(* main of the generator: each file is truncated when it is opened.        *)
Generate ==
    /\ gen = "idle" /\ version < MaxGenerations
    /\ version' = version + 1
    /\ gen' = "events" /\ events' = 0
    /\ alone' = [v \in Validators |-> alone[v] /\ pc[v] \in {"opening", "writing"}]
    /\ UNCHANGED <<clients, meta, cache, pc, known, read, stamp, answer, kills>>

WriteEvents == /\ gen = "events"
               /\ events' = version /\ clients' = 0 /\ gen' = "clients"
               /\ UNCHANGED <<version, meta, cache, calls, kills>>

WriteClients == /\ gen = "clients"
                /\ clients' = version /\ meta' = 0 /\ gen' = "meta"
                /\ UNCHANGED <<version, events, cache, calls, kills>>

WriteMeta == /\ gen = "meta"
             /\ meta' = version /\ gen' = "idle"
             /\ UNCHANGED <<version, events, clients, cache, calls, kills>>

KillGenerator == /\ gen # "idle" /\ kills < MaxKills
                 /\ gen' = "idle" /\ kills' = kills + 1
                 /\ UNCHANGED <<version, events, clients, meta, cache, calls>>

(* The files are those of one generation that is over.                     *)
Settled == gen = "idle" /\ events = version /\ clients = version /\ meta = version

-----------------------------------------------------------------------------
(* load_or_compute                                                         *)
MoveTo(v, l) == pc' = [pc EXCEPT ![v] = l]

(* The call is over, and its variables with it.                            *)
Leave(v) == /\ MoveTo(v, "idle")
            /\ read'  = [read EXCEPT ![v] = <<0, 0>>]
            /\ stamp' = [stamp EXCEPT ![v] = 0]
            /\ alone' = [alone EXCEPT ![v] = FALSE]
            /\ UNCHANGED known

(* An unfinished file does not parse, and the call raises.                 *)
Raise(v) == /\ Leave(v)
            /\ answer' = [answer EXCEPT ![v] = Nothing]
            /\ UNCHANGED <<files, cache, kills>>

LoadMeta(v) ==
    /\ pc[v] = "idle" /\ meta # 0
    /\ known' = [known EXCEPT ![v] = meta]
    /\ alone' = [alone EXCEPT ![v] = Settled]
    /\ answer' = [answer EXCEPT ![v] = Nothing]
    /\ MoveTo(v, "checking")
    /\ UNCHANGED <<files, cache, read, stamp, kills>>

MetaIsTorn(v) == pc[v] = "idle" /\ meta = 0 /\ Raise(v)

(* Mutant: cached answers are taken as they are.                           *)
AnyHit(v) == cache.state = "whole"

Hit(v) == cache.state = "whole" /\ cache.stamp = known[v]

ReturnCached(v) ==
    /\ pc[v] = "checking" /\ Hit(v)
    /\ answer' = [answer EXCEPT ![v] = [of |-> cache.of,
                                        alone |-> alone[v] /\ cache.alone]]
    /\ Leave(v)
    /\ UNCHANGED <<files, cache, kills>>

CacheIsTorn(v) == pc[v] = "checking" /\ cache.state = "torn" /\ Raise(v)

(* No cache, an outdated one, or --refresh.                                *)
Compute(v) == /\ pc[v] = "checking"
              /\ MoveTo(v, "parsing")
              /\ UNCHANGED <<files, cache, known, read, stamp, alone, answer, kills>>

(* parse_events: the event stream, then the clients.  Of a file that is    *)
(* being written it may take a part for the whole.                         *)
ParseEvents(v) ==
    /\ pc[v] = "parsing"
    /\ \/ events = 0 /\ Raise(v)
       \/ /\ read' = [read EXCEPT ![v] = <<events, @[2]>>]
          /\ MoveTo(v, "clients")
          /\ UNCHANGED <<files, cache, known, stamp, alone, answer, kills>>

ParseClients(v) ==
    /\ pc[v] = "clients"
    /\ \/ clients = 0 /\ Raise(v)
       \/ /\ read' = [read EXCEPT ![v] = <<@[1], clients>>]
          /\ MoveTo(v, "stamping")
          /\ UNCHANGED <<files, cache, known, stamp, alone, answer, kills>>

(* compute_all loads the meta file itself, once the answers are there.     *)
Stamp(v) ==
    /\ pc[v] = "stamping"
    /\ \/ meta = 0 /\ Raise(v)
       \/ /\ meta # 0
          /\ stamp' = [stamp EXCEPT ![v] = meta]
          /\ MoveTo(v, "opening")
          /\ UNCHANGED <<files, cache, known, read, alone, answer, kills>>

OpenCache(v) == /\ pc[v] = "opening"
                /\ cache' = Torn
                /\ MoveTo(v, "writing")
                /\ UNCHANGED <<files, known, read, stamp, alone, answer, kills>>

(* Two writers at once may leave the end of the longer text.               *)
CloseCache(v) ==
    /\ pc[v] = "writing"
    /\ \/ cache' = [state |-> "whole", stamp |-> stamp[v], of |-> read[v],
                    alone |-> alone[v]]
       \/ cache.state = "whole" /\ cache' = Torn
    /\ answer' = [answer EXCEPT ![v] = [of |-> read[v], alone |-> alone[v]]]
    /\ Leave(v)
    /\ UNCHANGED <<files, kills>>

KillValidator(v) ==
    /\ pc[v] # "idle" /\ kills < MaxKills
    /\ kills' = kills + 1
    /\ Leave(v)
    /\ UNCHANGED <<files, cache, answer>>

Generator    == Generate \/ WriteEvents \/ WriteClients \/ WriteMeta
Validator(v) == \/ LoadMeta(v) \/ MetaIsTorn(v) \/ ReturnCached(v)
                \/ CacheIsTorn(v) \/ Compute(v)
                \/ ParseEvents(v) \/ ParseClients(v) \/ Stamp(v)
                \/ OpenCache(v) \/ CloseCache(v)

AnswersNext == \/ Generator \/ KillGenerator
               \/ \E v \in Validators : Validator(v) \/ KillValidator(v)

AnswersSpec == AnswersInit /\ [][AnswersNext]_answerVars

-----------------------------------------------------------------------------
(* Types of the variables.                                                 *)
Versions == 0 .. MaxGenerations
AnswersTypeOK ==
    /\ {version, events, clients, meta} \subseteq Versions
    /\ gen \in {"idle", "events", "clients", "meta"}
    /\ cache \in [state : {"absent", "torn", "whole"}, stamp : Versions,
                  of : Versions \X Versions, alone : BOOLEAN]
    /\ pc \in [Validators -> {"idle", "checking", "parsing", "clients",
                              "stamping", "opening", "writing"}]
    /\ known \in [Validators -> Versions] /\ stamp \in [Validators -> Versions]
    /\ read \in [Validators -> Versions \X Versions]
    /\ alone \in [Validators -> BOOLEAN]
    /\ answer \in [Validators -> [of : Versions \X Versions, alone : BOOLEAN]]
    /\ kills \in 0 .. MaxKills

(* A validator is only given answers of other files than those its call    *)
(* began with beside a generator, or after one that was killed, or out of  *)
(* a cache that was written so: killed validators and overlapping ones     *)
(* never leave a cache that answers wrongly.                               *)
AnswersAreCurrent ==
    \A v \in Validators :
      answer[v].alone => answer[v].of = <<known[v], known[v]>>

(* What ground_truth.py:4-7 says: cached answers are keyed by the sha of   *)
(* the files they were computed from.                                      *)
KeyedBySha ==
    cache.state = "whole" => cache.of = <<cache.stamp, cache.stamp>>

=============================================================================
