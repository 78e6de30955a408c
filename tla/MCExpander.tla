------------------------------ MODULE MCExpander ------------------------------
(* Instances of Expander for TLC.                                          *)
EXTENDS Expander

Address(class, mapped) == [class |-> class, mapped |-> mapped]
SomeAddresses == {Address("global", FALSE), Address("private", FALSE), Address("special", TRUE)}

URL(host, page) ==
    [scheme |-> "https", user |-> FALSE, long |-> FALSE, host |-> host, caps |-> FALSE,
     page |-> page, fragment |-> FALSE]

CONSTANTS name, reserved

\* Three pages of a name, the first of them also with a fragment and in capitals, a
\* page of an address, and one URL for each reason to refuse it.
SomeURLs ==
    {URL(name, p) : p \in {"1", "2", "3"}}
    \cup {[URL(name, "1") EXCEPT !.fragment = TRUE], [URL(name, "1") EXCEPT !.caps = TRUE]}
    \cup {URL(Address("global", FALSE), "1"), URL(Address("special", TRUE), "1"),
          URL(reserved, "1"), URL(NoHost, "1"), [URL(name, "1") EXCEPT !.user = TRUE]}

\* Answers of the resolver: none, one address, or two of which one may be blocked.
SomeLookups ==
    LET a == Address("global", FALSE)  b == Address("private", FALSE)  c == Address("special", TRUE)
    IN {<<>>, <<a>>, <<a, a>>, <<a, b>>, <<c>>}

\* Unset, in between and beyond what is supported.
SomeLimits == {0, 1, 5}
===============================================================================
