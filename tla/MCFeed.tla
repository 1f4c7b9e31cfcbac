------------------------------- MODULE MCFeed --------------------------------
(* A small instance of Feed: three events, two of whose created_at may be    *)
(* equal, and an id for an event that others insert.                         *)
EXTENDS Feed

CONSTANTS me0, u1, u2, e1, e2, e3, e4

Made(at, author, start) ==
    [author |-> author, at |-> at, visible |-> TRUE, start |-> start, end |-> NoDay,
     gone |-> FALSE]

\* created_at of e1, e2, e3
Times == {<<1, 2, 3>>, <<1, 1, 2>>, <<1, 2, 2>>}

Authors == {<<u1, u2, u1>>, <<me0, me0, me0>>}

\* Their days; an event without one never passes the filter for upcoming ones.
Starts == {<<1, 0, 1>>, <<1, NoDay, NoDay>>}

Tables ==
    {[e \in Events |->
        CASE e = e1 -> Made(t[1], a[1], d[1])
          [] e = e2 -> Made(t[2], a[2], d[2])
          [] e = e3 -> Made(t[3], a[3], d[3])
          [] e = e4 -> NoRow] :
        t \in Times, a \in Authors, d \in Starts}
=============================================================================
