---------------------------- MODULE MCQueueKeys ----------------------------
(***************************************************************************)
(* Small instances of QueueKeys.  The tasks are chosen so that their keys  *)
(* take every shape of the grammar.                                        *)
(***************************************************************************)
EXTENDS QueueKeys
CONSTANTS p1, p2

MCPart == Words \cup {"eu", "us", "c"}

\* far: of region "eu", in a native layout other than flat; web: freestyle;
\* odd: a channel with ':' and the part "channel" that the cleaner looks for.
MCLayout  == [t \in Tasks |-> CASE t = "web" -> "freestyle"
                                [] t = "far" -> "spotlight"
                                [] OTHER -> "flat"]
MCCmd     == [t \in Tasks |-> "record"]
MCChannel == [t \in Tasks |-> IF t = "odd" THEN <<"channel", "c">> ELSE <<"c">>]
MCRegion  == [t \in Tasks |-> IF t = "far" THEN "eu" ELSE ""]

\* One pod of each kind.
Mixed == [p \in Pods |-> IF p = p1 THEN "native" ELSE "web"]

MCPodRegion == [p \in Pods |-> IF p = p1 THEN "eu" ELSE "us"]
=============================================================================
