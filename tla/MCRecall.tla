------------------------------ MODULE MCRecall ------------------------------
EXTENDS Recall
CONSTANTS x, y

\* Rows of both ids: points, pages, who has which page, sequels.
Left(px, py, gx, gy, has, seq) ==
    [point |-> [i \in Ids |-> IF i = x THEN px ELSE py],
     page |-> [i \in Ids |-> IF i = x THEN gx ELSE gy], hasPage |-> has, sequel |-> seq]

\* Two points with pages, the one replaced by the other; a point and a page of it
\* under another id; a superseded page of nobody with a successor.
MCStores ==
    {Left("archived", "active", "superseded", "active", {<<x, x>>, <<y, y>>}, {<<x, y>>}),
     Left("active", "none", "none", "active", {<<x, y>>}, {}),
     Left("none", "active", "superseded", "active", {}, {<<x, y>>})}

=============================================================================
