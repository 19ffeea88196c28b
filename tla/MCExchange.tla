------------------------------ MODULE MCExchange ------------------------------
(* A plain credential, request and answer, and families that vary one side of  *)
(* them at a time: every host of up to four characters against every kind of   *)
(* pattern; every type of credential against headers, bodies and answers;      *)
(* every pair of addresses against both kinds of credential.                   *)
EXTENDS Exchange, TLC

Texts(chars, max) == UNION {[1..n -> chars] : n \in 0..max}

Exact(t) == [wild |-> FALSE, base |-> HostText(t)]
Wild(t) == [wild |-> TRUE, base |-> HostText(t)]

Name == <<"g", ".", "g">>
Patterns == {Exact(Name), Wild(<<"g">>)}

Plain == [type |-> "bearer", secret |-> "long", header |-> [name |-> "", spelling |-> "exact"],
          username |-> FALSE, template |-> FALSE, patterns |-> Patterns,
          private |-> FALSE, insecure |-> FALSE]

Header(name, spelling) ==
  [Plain EXCEPT !.type = "header", !.header = [name |-> name, spelling |-> spelling]]

Typed ==
  {Header(n, s) : n \in {"", "Host", "Authorization", "Accept-Encoding", "X-Key"},
                  s \in {"exact", "case", "padded"}}
  \cup {[Plain EXCEPT !.type = t, !.secret = s, !.username = u, !.template = u] :
          t \in {"bearer", "basic", "custom", "query"}, s \in {"none", "short", "long", "broken"},
          u \in BOOLEAN}
  \cup {[Header("X-Key", "exact") EXCEPT !.secret = s] : s \in {"none", "short", "broken"}}

Patterned ==
  {[Plain EXCEPT !.patterns = ps] :
     ps \in {{}, {Exact(Name)}, {Exact(<<"G", ".">>)}, {Exact(<<"a", "0">>)}, {Exact(<<".", "g">>)},
             {Wild(<<>>)}, {Wild(<<"g">>)}, {Wild(Name)}, {Wild(<<"G", ".">>)}, {Wild(<<"a">>)},
             {[wild |-> FALSE, base |-> Literal("public")]}}}

Reaching ==
  {[Plain EXCEPT !.private = p, !.insecure = i,
                 !.patterns = Patterns \cup {[wild |-> FALSE, base |-> Literal(r)] : r \in Ranges}] :
     p, i \in BOOLEAN}

MCOffers == Typed \cup Patterned \cup Reaching

-------------------------------------------------------------------------------
Simple == [form |-> "https", port |-> "standard", host |-> HostText(Name), method |-> "GET",
           agent |-> {}, body |-> "text", decodes |-> TRUE, exposes |-> {}]

Field(name, spelling, value) == [name |-> name, spelling |-> spelling, value |-> value]

Agents ==
  {{Field(n, s, v)} : n \in {"Authorization", "Accept-Encoding", "X-Key", "Range"},
                      s \in {"exact", "case", "padded"}, v \in {"plain", "secret", "broken"}}
  \cup {{Field("X-Key", "exact", "plain"), Field("X-Key", "case", v)} : v \in {"plain", "secret"}}

MCRequests ==
  {[Simple EXCEPT !.host = HostText(t)] : t \in Texts(Characters, 2) \cup Texts({"0", "x", "g"}, 3) \cup Texts({"g", "."}, 5)}
  \cup {[Simple EXCEPT !.host = Literal(r)] : r \in Ranges}
  \cup {[Simple EXCEPT !.agent = a] : a \in Agents}
  \cup {[Simple EXCEPT !.form = f, !.port = p] :
          f \in {"http", "scheme", "userinfo", "unparsable", "https"}, p \in {"standard", "odd"}}
  \cup {[Simple EXCEPT !.body = "encoded", !.decodes = d, !.exposes = e] :
          d \in BOOLEAN, e \in SUBSET {"url", "body"}}
  \cup {[Simple EXCEPT !.method = "HEAD"]}

MCAnswers == {<<>>} \cup {<<a>> : a \in Ranges} \cup {<<a, b>> : a, b \in {"public", "ula", "nat64"}}

-------------------------------------------------------------------------------
Silent == [encoding |-> "", cut |-> "within", body |-> {}, values |-> <<>>, location |-> NoLocation]

MCResponses ==
  {[Silent EXCEPT !.encoding = x, !.body = {e}] : x \in {"", "gzip", "br"}, e \in Echoes}
  \cup {[Silent EXCEPT !.cut = "across", !.body = Echoes], [Silent EXCEPT !.encoding = "identity"]}
  \cup {[Silent EXCEPT !.values = v] :
          v \in {<<{}, {e}>> : e \in Echoes} \cup {<<{e}>> : e \in Echoes}}
  \cup {[Silent EXCEPT !.location = HostText(t)] :
          t \in {<<>>, Name, <<"G", ".", "g", ".">>, <<"x", "g">>, <<"g">>, <<"x", ".", "x">>}}
===============================================================================
