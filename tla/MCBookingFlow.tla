--------------------------- MODULE MCBookingFlow ---------------------------
\* BookingFlow on a small site: one page of every type, with and without a
\* price, and the notices on the pages where they make a difference.
EXTENDS BookingFlow

CONSTANTS p1, p2, t1, t2

Shown(final, total, other) ==
    [f \in PriceField |-> CASE f = "final" -> final
                            [] f = "total" -> total
                            [] f = "other" -> other]
Nothing == Shown(None, None, None)

PlainPage(k, shows, t) == [kind |-> k, notices |-> {}, shows |-> shows, tariff |-> t]

MCPages ==
    {PlainPage(k, Nothing, None) : k \in PageKind \ {"payment", "extras"}}
    \cup {PlainPage("offer", Shown(None, None, p1), t1),
          PlainPage("summary", Shown(p1, p2, None), t2)}
    \cup {[PlainPage("cabin", Nothing, None) EXCEPT !.notices = {n}] :
              n \in Notice \ {"challenge"}}
    \cup {[PlainPage("payment", Nothing, None) EXCEPT !.notices = {"challenge"}],
          [PlainPage("extras", Nothing, None) EXCEPT !.notices = {"changed"}]}
=============================================================================
