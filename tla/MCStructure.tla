---------------------------- MODULE MCStructure ----------------------------
(* Structure on one page with one list of two rows, and one more id.        *)
EXTENDS Structure

Placed0(p, key, prev) ==
    [parent |-> p, text |-> Blank, key |-> key, live |-> TRUE, done |-> FALSE,
     t |-> Stamp(0, 0), prev |-> prev, at |-> Stamp(0, 0)]

MCRecovery == [d \in Devices |-> 6 + d]

Page(rows) ==
    [x \in Rows |->
        CASE x = Root -> [Placed0(NoParent, 0, First) EXCEPT !.at = Unstamped]
          [] x = 1 -> Placed0(Root, 4, First)
          [] x = 2 -> Placed0(1, 4, First)
          [] x = 3 -> Placed0(2, 4, First)
          [] x = 4 -> Placed0(2, 8, 3)
          [] x \in DOMAIN rows -> rows[x]
          [] OTHER -> NoRow]

Alike(t) == [d \in Devices |-> t]

\* Both hold the page; or device 1 has read home alone, and one command is spent.
MCStarts ==
    {[table |-> Alike(Page(<<>>)), commands |-> 0],
     [table |-> [Alike(Page(<<>>)) EXCEPT
                   ![1] = [x \in Rows |-> IF x \in {0, 1} THEN Page(<<>>)[x] ELSE NoRow]],
      commands |-> 1]}

\* Device 1 made its recovery page once, and somebody threw it away; both know.
TidiedUp ==
    LET page == MCRecovery[1]
        thrown == [Placed0(Root, 100, First) EXCEPT !.live = FALSE, !.t = Stamp(1, 1)]
    IN {[table |-> Alike([Page(<<>>) EXCEPT ![page] = thrown]), commands |-> 0]}
=============================================================================
