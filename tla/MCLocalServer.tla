--------------------------- MODULE MCLocalServer ---------------------------
(***************************************************************************)
(* Instances of LocalServer for TLC.                                       *)
(***************************************************************************)
EXTENDS LocalServer

\* Small limit: two blocks of body.
Request(method, path, secrets, length, body) ==
  [method |-> method, path |-> path, secrets |-> secrets, length |-> length, body |-> body]

\* One request of each fate: a probe, an operation, a refusal.
FewRequests ==
  {Request("GET", "health", <<Secret>>, 0, <<>>),
   Request("POST", "greet", <<Secret>>, 1, <<"object">>),
   Request("POST", "greet", <<>>, 1, <<"object">>)}

\* The methods, the routes and the secret headers, without a body.
BodilessRequests ==
  {Request(method, path, secrets, 0, <<>>) :
     method \in {"GET", "POST", "OTHER"},
     path \in {"outside", "health", "manifest", "unrouted", "greet", "shutdown"},
     secrets \in {<<>>, <<Secret>>, <<"wrong">>, <<"wrong", Secret>>}}

\* Bodies around the limit, with their length announced, missing or, for a
\* client that hangs up early, larger than what is sent.
Bodies ==
  {<<block>> : block \in Blocks}
    \cup {<<"space", "object">>, <<"object", "space">>, <<"object", "object">>, <<"value", "binary">>}
    \cup {<<"space", "object", "space">>, <<"space", "space", "object">>, <<"object", "space", "binary">>,
         <<"space", "space", "garbage">>}

BodyRequests ==
  UNION {{Request("POST", "greet", <<Secret>>, length, body) :
            length \in {NoLength, Len(body), 3}} : body \in Bodies}

AllRequests == BodilessRequests \cup BodyRequests

\* "Bodies larger than this are refused before they are read."
OversizeRefused ==
  \A i \in DOMAIN answers :
    Len(answers[i].request.body) > MaxBodyBytes => answers[i].reply.status # 200
=============================================================================
