------------------------------- MODULE Canvas -------------------------------
(***************************************************************************)
(* What the paint pipeline promises about the durable canvas, without any  *)
(* tile cache, write-behind or reconciliation: a request to paint a set of *)
(* pixels of one tile commits them in batches, and is answered "ok" only   *)
(* once every one of its pixels is in the pixels table.  A request that    *)
(* fails half way keeps the batches it committed and is answered "error";  *)
(* a crash of the server loses the requests in flight and no pixel.        *)
(***************************************************************************)
CONSTANTS
    Tiles,      \* tile coordinates
    Pixels,     \* coordinates inside a tile
    Palette,    \* color ids a request may carry
    NoRow,      \* "no row in the pixels table": also what a clear writes
    Painters    \* requests that can be in flight together

VARIABLES
    rows,       \* rows[t][x]: color_id of the pixel row, or NoRow
    req,        \* req[p]: the pixels the open request p still has to commit
    answer      \* answer[p]: how the last request of p was answered

canvasVars == <<rows, req, answer>>

Values == Palette \cup {NoRow}

Closed == [tile |-> NoRow, value |-> NoRow, todo |-> {}]

CanvasInit ==
    /\ rows \in [Tiles -> [Pixels -> Values]]
    /\ req = [p \in Painters |-> Closed]
    /\ answer = [p \in Painters |-> "none"]

Open(p) ==
    /\ req[p] = Closed
    /\ \E t \in Tiles, D \in SUBSET Pixels, v \in Values :
          /\ D # {}
          /\ req' = [req EXCEPT ![p] = [tile |-> t, value |-> v, todo |-> D]]
    /\ answer' = [answer EXCEPT ![p] = "none"]
    /\ UNCHANGED rows

Commit(p) ==
    \E S \in SUBSET req[p].todo :
        /\ S # {}
        /\ rows' = [rows EXCEPT ![req[p].tile] =
                       [x \in Pixels |-> IF x \in S THEN req[p].value ELSE @[x]]]
        /\ req' = [req EXCEPT ![p].todo = @ \ S]
        /\ UNCHANGED answer

Close(p) ==
    /\ req[p] # Closed
    /\ req' = [req EXCEPT ![p] = Closed]
    /\ \/ req[p].todo = {} /\ answer' = [answer EXCEPT ![p] = "ok"]
       \/ answer' = [answer EXCEPT ![p] = "error"]
    /\ UNCHANGED rows

ServerCrash ==
    /\ req' = [p \in Painters |-> Closed]
    /\ answer' = [p \in Painters |-> "none"]
    /\ UNCHANGED rows

CanvasNext ==
    \/ \E p \in Painters : Open(p) \/ Commit(p) \/ Close(p)
    \/ ServerCrash

CanvasSpec == CanvasInit /\ [][CanvasNext]_canvasVars

=============================================================================
