------------------------- MODULE MCRequestPipeline -------------------------
(***************************************************************************)
(* An instance of RequestPipeline for TLC: routes with every decorator, and*)
(* requests that differ from the accepted one of their route in one place, *)
(* or in two that different stages look at.                                *)
(***************************************************************************)
EXTENDS RequestPipeline

Route(name, public, roles, changes, deprecated, schema, raw, idempotent, found, status) ==
    [name |-> name, public |-> public, roles |-> roles, changes |-> changes,
     deprecated |-> deprecated, schema |-> schema, raw |-> raw,
     idempotent |-> idempotent, found |-> found, unlimited |-> raw, status |-> status]

Orders == Route("orders", FALSE, {"clerk"}, TRUE, TRUE, TRUE, FALSE, TRUE, TRUE, 201)
Metricz == Route("metrics", TRUE, {}, FALSE, FALSE, FALSE, TRUE, FALSE, TRUE, 200)
Fallback == Route("fallback", TRUE, {}, TRUE, FALSE, FALSE, FALSE, FALSE, FALSE, 200)
Report == Route("report", FALSE, {}, FALSE, TRUE, FALSE, FALSE, FALSE, TRUE, 200)
Misplaced == Route("misplaced", TRUE, {"clerk"}, FALSE, TRUE, FALSE, FALSE, FALSE, TRUE, 200)

Clerk == [valid |-> TRUE, roles |-> {"clerk"}]
Guest == [valid |-> TRUE, roles |-> {}]
Expired == [valid |-> FALSE, roles |-> {"clerk"}]

Base(route) ==
    [route |-> route, cookie |-> Clerk, bearer |-> NoToken, site |-> "own",
     body |-> "b1", key |-> CHOOSE k \in Keys : TRUE, skip |-> FALSE]

B == Base(Orders)
\* One thing wrong, or two that different stages look at.
OrderAsks ==
    {B, [B EXCEPT !.body = "b2"], [B EXCEPT !.skip = TRUE],
     [B EXCEPT !.body = "malformed", !.cookie = Expired],
     [B EXCEPT !.site = "foreign", !.cookie = Expired],
     [B EXCEPT !.site = "foreign", !.bearer = Guest],
     [B EXCEPT !.cookie = NoToken, !.body = "invalid"],
     [B EXCEPT !.cookie = NoToken, !.bearer = Clerk, !.site = "foreign"],
     [B EXCEPT !.cookie = Expired, !.bearer = Clerk],
     [B EXCEPT !.cookie = Guest, !.key = NoKey],
     [B EXCEPT !.body = "invalid"], [B EXCEPT !.body = "invalid", !.key = NoKey],
     [B EXCEPT !.key = NoKey]}
OtherAsks ==
    {Base(Metricz), Base(Fallback), Base(Misplaced), Base(Report),
     [Base(Fallback) EXCEPT !.site = "foreign"]}

\* Requests meet only at the key: one of them may be any request, the others
\* are some that get that far.
First == CHOOSE r \in Requests : TRUE
AsksOf == [r \in Requests |->
              IF r = First THEN OrderAsks \cup OtherAsks
              ELSE {B, [B EXCEPT !.body = "b2"]}]

SomeErrors == {Problem("unlisted"), Bare("domain")}
\* The statement or its COMMIT fails.
BrokenStore == {Bare("driver")}
TwoBodies == {"b1", "b2"}
=============================================================================
