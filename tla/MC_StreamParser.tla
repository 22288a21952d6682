-------------------------- MODULE MC_StreamParser --------------------------
(* Small messages of every protocol, at, below and above every limit. *)
EXTENDS StreamParser

MCSymbols ==
    {CR, LF, "-", "b", "=", "&", "%26", "%3D", "q10", "q11", "q20", "bad", "status",
     "x", "y", "z", "a", "A", "c"} \cup Sizes \cup Options \cup Folds

MCRequests ==
    {[proto |-> "request", line |-> l, options |-> o, content |-> c] :
        l \in {"q10", "q11", "q20", "bad"},
        o \in {<< >>, <<"Host">>, <<"L2", "Host">>, <<"h", "bad", "L2", "Host">>, <<"L4">>,
               <<"f0", "L2", "f1", "Host">>, <<"Host", "h", "L2", "h", "f1">>},
        c \in {<< >>, <<"x", "y">>, <<"x", CR, "y">>}}

MCResponses ==
    {[proto |-> "response", status |-> "bad", sends |-> "length", chunks |-> << >>]} \cup
    {[proto |-> "response", status |-> "status", sends |-> s, chunks |-> c] :
        s \in {"length", "chunks", "close"},
        c \in {<< >>, << <<"x", "y">>, <<CR>> >>, << <<"x", "y", "z">> >>,
               << <<"x", "y">>, <<"z", "x">> >>}}

MCForms ==
    {[proto |-> "url", items |-> i] :
        i \in {<< >>,
               <<[name |-> <<"a">>, value |-> <<"x", "&">>], [name |-> <<"=">>, value |-> <<"y">>],
                 [name |-> <<"c">>, value |-> << >>], [name |-> <<"A">>, value |-> << >>]>>,
               <<[name |-> <<"a">>, value |-> << >>], [name |-> <<"b">>, value |-> <<"y">>]>>,
               <<[name |-> <<"a">>, value |-> <<"x", "y", "z">>]>>}}

MCParts ==
    {[proto |-> "mime", by |-> "browser", ends |-> FALSE,
      items |-> <<[name |-> <<"h">>, value |-> <<"x">>]>>]} \cup
    {[proto |-> "mime", by |-> "library", ends |-> TRUE,
      items |-> <<[name |-> <<"h">>, value |-> <<"x">>], [name |-> << >>, value |-> <<"y">>]>>]} \cup
    {[proto |-> "mime", by |-> "browser", ends |-> TRUE, items |-> i] :
        i \in {<<[name |-> <<"h">>, value |-> <<"x", CR, LF, "-">>]>>,
               <<[name |-> <<"h">>, value |-> << >>], [name |-> <<"L2", "f1", "bad">>, value |-> <<CR>>]>>,
               <<[name |-> << >>, value |-> <<"x">>], [name |-> << >>, value |-> << >>],
                 [name |-> << >>, value |-> <<"y">>]>>}}

MCLines ==
    {[proto |-> "line", items |-> i] :
        i \in {<<[value |-> <<"x", "y">>], [value |-> << >>], [value |-> <<"z">>]>>,
               <<[value |-> <<"x", "y", "z", "x">>]>>,
               [k \in 1 .. 17 |-> [value |-> << >>]]}}

MCMessages == MCRequests \cup MCResponses \cup MCForms \cup MCParts \cup MCLines
=============================================================================
