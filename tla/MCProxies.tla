-------------------------------- MODULE MCProxies ----------------------------
(* One run for the proxies: a behaviour is one of hitm's flows, of held      *)
(* requests, of certificates, or of the streams and results of its page, or  *)
(* it is one of the SSH router.  There, channels are opened on one user's    *)
(* first connection only, since routes and channels do not interact.         *)
EXTENDS HitmFlows, HitmIntercept, HitmCerts, HitmEvents, SshRouter, TLC

CONSTANTS h1, h2, h3, s1, s2, s3

VARIABLE part

MCclean == h1 :> "a" @@ h2 :> "b" @@ h3 :> "b"
MCRemoteAddr == s1 :> "tab" @@ s2 :> "tab" @@ s3 :> "other"

(* "abc" has a route of its own and two patterns match it, as they do "ab". *)
abc == <<"a", "b", "c">>
MCRoutes == abc :> "own" @@ <<"a", "*">> :> "wide" @@ <<"a", "b", "*">> :> "narrow"
MCLogins == {abc, <<"a", "b">>, <<"a">>, <<"c">>}
OneSession == visits = {<<<<"c">>, Default>>}

ProxiesInit ==
    /\ FlowsInit /\ InterceptInit /\ CertsInit /\ EventsInit /\ SshInit
    /\ part \in {"flows", "intercept", "certs", "events", "ssh"}

ProxiesNext ==
    /\ UNCHANGED part
    /\ \/ part = "flows" /\ FlowsNext /\ UNCHANGED <<interceptVars, certVars, eventVars, sshVars>>
       \/ part = "intercept" /\ InterceptNext /\ UNCHANGED <<flowVars, certVars, eventVars, sshVars>>
       \/ part = "certs" /\ CertsNext /\ UNCHANGED <<flowVars, interceptVars, eventVars, sshVars>>
       \/ part = "events" /\ EventsNext /\ UNCHANGED <<flowVars, interceptVars, certVars, sshVars>>
       \/ part = "ssh" /\ SshNext /\ (chan' # "none" => OneSession)
          /\ UNCHANGED <<flowVars, interceptVars, certVars, eventVars>>

ProxiesSpec ==
    /\ ProxiesInit /\ [][ProxiesNext]_<<flowVars, interceptVars, certVars, eventVars, sshVars, part>>
    /\ InterceptFairness
=============================================================================
