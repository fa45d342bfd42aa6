------------------------------- MODULE GitPins -------------------------------
(***************************************************************************)
(* The host-policy pins of one git operation                               *)
(* (crates/git/src/command/pins.rs): the configuration is listed with its  *)
(* scopes, read into settings of the host and of the repository, and built *)
(* into the -c overrides that lead every command of the operation.         *)
(*                                                                         *)
(* A key is a model value of one of the classes the code tells apart; what *)
(* git makes of the listing and the overrides together is external: the    *)
(* last value of a key wins, and an empty credential helper empties the    *)
(* list of helpers gathered so far, whichever key it was set under.        *)
(***************************************************************************)
EXTENDS Naturals, Sequences, SequencesExt, FiniteSets

CONSTANTS
    ForcedKeys,      \* FORCED: off on every operation
    ProgramKeys,     \* HOST_PINNED_KEYS: one program the host may carry
    DriverKeys,      \* filter and merge drivers
    HelperKeys,      \* credential.helper and one credential.<url>.helper
    TransportKeys,   \* URL rewrites, http settings, proxies
    BadKeys,         \* keys in bytes no pin can name
    Said,            \* key -> what a setting of the key may say, nothing included
    Empty,
    MaxSettings

Keys == ForcedKeys \cup ProgramKeys \cup DriverKeys \cup HelperKeys \cup TransportKeys \cup BadKeys

\* The scopes in the order git lists them; command is the environment's.
Scopes == <<"global", "local", "worktree", "command">>
Rank(scope) == CHOOSE i \in DOMAIN Scopes : Scopes[i] = scope

Values == UNION {Said[k] : k \in Keys} \cup {Empty}
Listed == {s \in [scope : Range(Scopes), key : Keys, value : Values] : s.value \in Said[s.key]}

VARIABLES
    listing,     \* config --show-scope --list, in git's order
    op,          \* "local" or "transport": what the pins are read for
    read,        \* how many records parse has taken
    settings,    \* the settings read
    pins,        \* the -c overrides, in order
    blocked,     \* blocked_transport_key, Empty when there is none
    pc           \* "reading", "building", "checking", "running", "refused"

vars == <<listing, op, read, settings, pins, blocked, pc>>

Pinned == [key : Keys, value : Values]

TypeOK ==
    /\ pc \in {"reading", "building", "checking", "running", "refused"}
    /\ read \in 0 .. Len(listing)
    /\ settings \in Seq([scope : {"host", "repo"}, key : Keys, value : Values])
    /\ pc # "refused" => Len(settings) = read
    /\ pins \in Seq(Pinned)
    /\ blocked \in TransportKeys \cup {Empty}

Init ==
    /\ listing \in {s \in UNION {[1 .. n -> Listed] : n \in 0 .. MaxSettings} :
                      \A i \in 1 .. Len(s) - 1 : Rank(s[i].scope) <= Rank(s[i + 1].scope)}
    /\ op \in {"local", "transport"}
    /\ read = 0 /\ settings = <<>> /\ pins = <<>> /\ blocked = Empty
    /\ pc = "reading"

----------------------------------------------------------------------------
(* parse                                                                   *)

ScopeOf(scope) == IF scope \in {"local", "worktree"} THEN "repo" ELSE "host"

\* A repository key no pin can name refuses the operation; a host's is read
\* as text makes of it.
Parse ==
    /\ pc = "reading" /\ read < Len(listing)
    /\ LET s == listing[read + 1] scope == ScopeOf(s.scope) IN
         IF s.key \in BadKeys /\ scope = "repo"
           THEN pc' = "refused" /\ UNCHANGED settings
           ELSE /\ settings' = Append(settings, [scope |-> scope, key |-> s.key, value |-> s.value])
                /\ UNCHANGED pc
    /\ read' = read + 1
    /\ UNCHANGED <<listing, op, pins, blocked>>

Parsed ==
    /\ pc = "reading" /\ read = Len(listing)
    /\ pc' = "building"
    /\ UNCHANGED <<listing, op, read, settings, pins, blocked>>

\* A listing git did not give, for whatever reason: no setting is read and the
\* forced set alone applies. The later commands still run over what is set.
Unreadable ==
    /\ pc = "reading" /\ read = 0
    /\ pc' = "building"
    /\ UNCHANGED <<listing, op, read, settings, pins, blocked>>

----------------------------------------------------------------------------
(* Pins::build                                                             *)

Pin(key, value) == [key |-> key, value |-> value]
ofScope(scope) == {i \in DOMAIN settings : settings[i].scope = scope}
repo_set(key) == \E i \in ofScope("repo") : settings[i].key = key

HostAt(key) == {i \in ofScope("host") : settings[i].key = key}

host_value(key) ==
    IF HostAt(key) = {} THEN Empty
    ELSE settings[CHOOSE i \in HostAt(key) : \A k \in HostAt(key) : k <= i].value

host_values(key) ==
    LET mine == SelectSeq(settings, LAMBDA s : s.scope = "host" /\ s.key = key)
    IN  [i \in DOMAIN mine |-> Pin(key, mine[i].value)]

ForcedPins == [i \in 1 .. Cardinality(ForcedKeys) |-> Pin(SetToSeq(ForcedKeys)[i], Empty)]

ProgramPins ==
    LET set == SetToSeq({k \in ProgramKeys : repo_set(k)})
    IN  [i \in DOMAIN set |-> Pin(set[i], host_value(set[i]))]

\* Mutant of DriverPins: a driver is pinned to what the repository set.
DriverPinsOwn ==
    LET set == SelectSeq(settings, LAMBDA s : s.scope = "repo" /\ s.key \in DriverKeys)
    IN  [i \in DOMAIN set |-> Pin(set[i].key, set[i].value)]

DriverPins ==
    LET set == SelectSeq(settings, LAMBDA s : s.scope = "repo" /\ s.key \in DriverKeys)
    IN  [i \in DOMAIN set |-> Pin(set[i].key, Empty)]

\* repo_credential_keys: each once, in the order the repository set them.
RepoHelpers ==
    LET new == {i \in ofScope("repo") :
                  /\ settings[i].key \in HelperKeys
                  /\ \A k \in ofScope("repo") : settings[k].key = settings[i].key => i <= k}
        order == SetToSortSeq(new, LAMBDA i, k : i < k)
    IN  [i \in DOMAIN order |-> settings[order[i]].key]

HelperPins ==
    LET keys == RepoHelpers
    IN  FlattenSeq([i \in DOMAIN keys |-> <<Pin(keys[i], Empty)>> \o host_values(keys[i])])

\* The first key the repository set of how a transport runs.
BlockedKey ==
    LET set == SelectSeq(settings, LAMBDA s : s.scope = "repo" /\ s.key \in TransportKeys)
    IN  IF set = <<>> THEN Empty ELSE set[1].key

Build ==
    /\ pc = "building"
    /\ pins' = ForcedPins \o ProgramPins \o DriverPins \o HelperPins
    /\ blocked' = BlockedKey
    /\ pc' = "checking"
    /\ UNCHANGED <<listing, op, read, settings>>

\* check_transport_config: fetch and push refuse the repository whole.
Check ==
    /\ pc = "checking"
    /\ pc' = IF op = "transport" /\ blocked # Empty THEN "refused" ELSE "running"
    /\ UNCHANGED <<listing, op, read, settings, pins, blocked>>

Done == pc \in {"running", "refused"} /\ UNCHANGED vars

Next == Parse \/ Parsed \/ Unreadable \/ Build \/ Check \/ Done

Spec == Init /\ [][Next]_vars

----------------------------------------------------------------------------
(* What git runs under.                                                    *)

\* Every value a run of git sees, the overrides last.
Config == [i \in DOMAIN listing |-> [key |-> listing[i].key, value |-> listing[i].value]] \o pins

HostConfig == SelectSeq(listing, LAMBDA s : s.scope \in {"global", "command"})

LastOf(config, key) ==
    LET at == {i \in DOMAIN config : config[i].key = key} IN
    IF at = {} THEN Empty ELSE config[CHOOSE i \in at : \A k \in at : k <= i].value

\* The helpers a matching URL is offered, an empty one starting the list over.
Helpers(config) ==
    LET set == SelectSeq(config, LAMBDA c : c.key \in HelperKeys)
        cuts == {0} \cup {i \in DOMAIN set : set[i].value = Empty}
        from == CHOOSE i \in cuts : \A k \in cuts : k <= i
    IN  [i \in 1 .. Len(set) - from |-> set[from + i].value]

----------------------------------------------------------------------------
(* Properties                                                              *)

\* The values the repository alone set.
RepoValues(key) ==
    {listing[i].value : i \in {j \in DOMAIN listing :
        listing[j].key = key /\ listing[j].scope \in {"local", "worktree"}}}
HostValues(key) ==
    {listing[i].value : i \in {j \in DOMAIN listing :
        listing[j].key = key /\ listing[j].scope \in {"global", "command"}}}

\* Whether the listing was read, or the forced set alone applies.
Read == read = Len(listing)

\* Every forced key is off, read or not, whoever set it.
ForcedOff == pc = "running" => \A k \in ForcedKeys : LastOf(Config, k) = Empty

\* No program runs because the repository named it (vcs.rs, Repo: "every command
\* git runs for it reads the pins first, so the repository's own configuration
\* cannot choose a program"): no driver and no credential helper is a value only
\* the repository set.
NoRepoProgram ==
    pc = "running" =>
        /\ \A k \in DriverKeys : LastOf(Config, k) \in HostValues(k) \cup {Empty}
        /\ Range(Helpers(Config)) \subseteq UNION {HostValues(k) : k \in HelperKeys}

\* The SSH, prompt and signing programs are the host's as at a prompt: under
\* the pins each has the value the host's own configuration alone gives it.
HostAsAtPrompt ==
    pc = "running" =>
        \A k \in ProgramKeys : LastOf(Config, k) = LastOf(HostConfig, k)

\* A transport never runs over a repository that set how it runs.
TransportHeld ==
    pc = "running" /\ op = "transport" => \A k \in TransportKeys : RepoValues(k) = {}

\* An operation is refused for nothing the host set.
RefusedForRepo == pc = "refused" => \E k \in BadKeys \cup TransportKeys : RepoValues(k) # {}

\* The helpers offered are the host's as at a prompt where the repository set
\* none, and else the host's for the last of the keys it set, in their order and
\* started over where the host itself does so.
HelpersOfLast ==
    pc = "running" =>
        LET keys == RepoHelpers IN
        Helpers(Config) = IF keys = <<>> THEN Helpers(HostConfig)
                          ELSE Helpers(SelectSeq(HostConfig, LAMBDA s : s.key = Last(keys)))

\* What a run of git is under is the host's alone wherever the listing was read.
PinsInv ==
    /\ TypeOK /\ ForcedOff /\ RefusedForRepo
    /\ Read => NoRepoProgram /\ HostAsAtPrompt /\ TransportHeld /\ HelpersOfLast

\* A repository-scoped driver is pinned to the operator's own value, or to
\* nothing where the operator set none (README, "pinned to the operator's own
\* value").
HostDriversKept ==
    pc = "running" =>
        \A k \in DriverKeys : LastOf(Config, k) = LastOf(HostConfig, k)

\* The credential programs that run are the host's as at a prompt (README;
\* build: "so an operator's auth survives").
HostHelpersKept ==
    pc = "running" => Helpers(Config) = Helpers(HostConfig)
=============================================================================
