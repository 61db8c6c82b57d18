----------------------------- MODULE MCGateway -----------------------------
(* Every list of up to two upstreams over three kinds of providers and an   *)
(* unknown one, with requests of every kind the handler tells apart; and,   *)
(* for one list, the files, addresses and overrides that start-up tells     *)
(* apart.                                                                   *)
EXTENDS Gateway

CONSTANTS other, busy   \* a free address and one that another process has

MCAddresses == {Fixed, DefaultMetrics, other, busy}

Upstreams == [provider : {"openai", "anthropic", "google", "mistral"}]
Lists == {<<>>} \cup {<<u>> : u \in Upstreams} \cup (Upstreams \X Upstreams)
MCConfigs == Lists \cup {Shipped.content.upstreams}

Message(role, text, whole) == [role |-> role, text |-> text, whole |-> whole]
Talks == {<<Message("system", "a", TRUE), Message("assistant", "b", TRUE), Message("user", "c", TRUE)>>,
          <<Message("user", "a", FALSE), Message("user", "b", TRUE)>>}

Posts == [header : {Absent, Unreadable, "anthropic", "google", "mistral", "Mistral"},
          model : {{"gpt"}, {"claude"}, {"gemini"}, {"claude", "o1"}, {}},
          stream : BOOLEAN,
          array : {TRUE}, messages : Talks,
          max_tokens : {Absent, 7}]
OddPosts == [header : {Absent, "anthropic", "google"}, model : {{"gpt"}},
             stream : BOOLEAN, array : {FALSE},
             messages : {<<Message("model", "a", TRUE)>>},
             max_tokens : {8, 9}]
MCRequests == Posts \cup OddPosts

Content(upstreams) == [NoSettings EXCEPT !.upstreams = upstreams, !.listen = Fixed]
Spelled == [openai |-> "open_a_i", anthropic |-> "anthropic", google |-> "google"]
File(content) ==
    [exists |-> TRUE, toml |-> TRUE, whole |-> TRUE,
     names |-> {Spelled[p] : p \in DOMAIN Spelled
                                   \cap {content.upstreams[i].provider : i \in DOMAIN content.upstreams}},
     content |-> content]
Plain(entry, file) ==
    [entry |-> entry, file |-> file, taken |-> {busy},
     overrides |-> [listen |-> Unset, metrics |-> Unset]]

One == Content(<<[provider |-> "anthropic"]>>)
OddFiles ==
    {[File(One) EXCEPT !.exists = FALSE], [File(One) EXCEPT !.toml = FALSE],
     [File(One) EXCEPT !.whole = FALSE], [File(One) EXCEPT !.names = {"openai"}]}
        \cup {File([One EXCEPT !.tls = TRUE, !.cert = c, !.key = k]) : c, k \in BOOLEAN}
        \cup {File([One EXCEPT !.metrics = a]) : a \in MCAddresses}
MCLaunches ==
    {Plain("main", File(Content(c))) : c \in Lists}
        \cup {Plain(e, f) : e \in {"main", "env"}, f \in OddFiles}
        \cup {[Plain("main", File(One)) EXCEPT !.overrides = [listen |-> other, metrics |-> Fixed]],
               [Plain("main", File(One)) EXCEPT !.taken = {Fixed}],
               [Plain("main", Shipped) EXCEPT !.taken = {}]}
=============================================================================
