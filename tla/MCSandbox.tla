----------------------------- MODULE MCSandbox -----------------------------
(***************************************************************************)
(* A supervised child, a one-shot run, and a session with its proxy.  A    *)
(* behaviour is one of the three: `part` says which moves, the others      *)
(* stand as they began.  The process group is that of the part that moves. *)
(***************************************************************************)
EXTENDS SandboxChild, OneShot, SandboxSession

VARIABLE part

\* An address of the metadata service, one that carries it in v6, loopback of both
\* versions, one of the host's own, one it comes to hold, and one of neither.
MCRanges ==
    [public |-> {}, moved |-> {}, mine |-> {}, low |-> {}, lo |-> {"loopback"},
     meta |-> {"link_local", "metadata"}, mapped |-> {}, lo6 |-> {"loopback"}]

MCCarries == [a \in DOMAIN MCRanges |->
               IF a = "mapped" THEN "meta" ELSE IF a = "lo6" THEN "low" ELSE None]

Name(labels) == [address |-> None, labels |-> labels]
At(a) == [address |-> a, labels |-> <<>>]
Connect(host) == [method |-> "CONNECT", host |-> host]

MCRequests ==
    {[method |-> "GET", host |-> None], Connect(None), Connect(Name(<<"B", "a">>)),
     Connect(Name(<<"b">>)), Connect(At("lo")), Connect(At("mapped")), Connect(At("public"))}

MCAnswers == {{}, {"public"}, {"mapped"}, {"mapped", "moved"}, {"mine", "public"}, {"lo6"}}

\* The grant in full; a denied root of each kind; a denied variable.
MCGrants ==
    {[egress |-> {Name(<<"*", "A">>), At("lo"), At("mapped")},
      read |-> <<<<"work">>, <<"src">>, <<"absent">>>>, env |-> {"TERM"}]}
    \cup {[egress |-> {}, read |-> <<<<"work">>, rest>>, env |-> {}] :
            rest \in {<<"vault">>, <<"keys">>, <<".ssh", "id">>, <<"out">>, <<"..">>, <<"note">>}}
    \cup {[egress |-> {}, read |-> <<<<"work", "deep">>>>, env |-> {name}] :
            name \in {"HOME", "LD_X", "GIT_DIR", "KEY", "1X"}}

\* ~/.ssh is a link to ~/vault/ssh, ~/keys one to it, ~/src one to ~/work.
MCLinks ==
    LET at(p) == <<"home">> \o p IN
    [p \in {at(<<".ssh">>), at(<<"keys">>), at(<<"src">>), at(<<"out">>)} |->
        IF p = at(<<"src">>) THEN at(<<"work">>)
        ELSE IF p = at(<<"out">>) THEN <<"etc">> ELSE at(<<"vault", "ssh">>)]

MCHeld == {{"mine", "lo"}, {"moved", "mine", "lo"}}
MCV6 == {"mapped", "lo6"}
MCLower == [l \in {"*", "a", "A", "b", "B"} |-> CASE l = "A" -> "a" [] l = "B" -> "b" [] OTHER -> l]
MCWorkspaces == {None, <<"home", "src", "deep">>, <<"home", "other">>}
MCShellRoots == {<<"home", "work">>}
MCDirs == {<<"home">>, <<"home", "work">>, <<"home", "work", "deep">>, <<"home", "vault">>,
           <<"home", "vault", "ssh">>, <<"etc">>}
MCFiles == {<<"home", "note">>, <<"home", "vault", "ssh", "id">>}
MCStores == {<<".ssh">>}

BoxInit ==
    /\ part \in {"child", "one_shot", "session"}
    /\ Init /\ ShotInit /\ SessionInit
    /\ part # "session" => own = {"mine", "lo"} /\ grant.egress # {}

BoxNext ==
    \/ part = "child" /\ Next /\ UNCHANGED <<part, runVars, boxVars>>
    \/ part = "one_shot" /\ ShotNext /\ UNCHANGED <<part, supVars, pipeVars, callVars, boxVars>>
    \/ part = "session" /\ SessionNext /\ UNCHANGED <<part, vars, runVars>>

BoxSpec ==
    /\ BoxInit /\ [][BoxNext]_<<part, vars, runVars, boxVars>>
    /\ (part = "child" => Fairness) /\ (part = "one_shot" => ShotFairness)
    /\ SessionFairness

\* Every exit is published, every stop or drop ends the process and every caller
\* waiting for the ready line is answered; every one-shot ends; a tunnel ends with
\* the session that opened it.
SandboxEnds ==
    /\ (part = "child" /\ leader # "running") ~> (published \/ sup = "cancelled")
    /\ StopEnds
    /\ (part = "child" /\ leader # "running") ~> (ready # "pending")
    /\ (part = "one_shot") ~> (run \in Ended)
    /\ TunnelsEnd

=============================================================================
