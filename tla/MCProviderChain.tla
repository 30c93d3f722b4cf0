--------------------------- MODULE MCProviderChain ---------------------------
(* Finite instances of ProviderChain for TLC. *)
EXTENDS ProviderChain

CONSTANTS r1, r2

\* One URL of any kind, and one that is fine; "gone" is treated as "private" is.
OneOdd == {[r \in Requests |-> IF r = r1 THEN k ELSE "fine"] : k \in Kinds \ {"gone"}}
AllFine == {[r \in Requests |-> "fine"]}

\* Instagram as an operator may set it up: Apify first, yt-dlp, which the panel
\* may still add, to fall back on.
SpareToCome == [p \in {1, 2} |->
  [there |-> IF p = 1 THEN "row" ELSE "new", active |-> TRUE, priority |-> p,
   type |-> IF p = 1 THEN "apify" ELSE "ytdlp", key |-> IF p = 1 THEN "good" ELSE "none"]]

\* The same with both rows, after a change of ENCRYPTION_KEY.
KeyLost == [p \in {1, 2} |->
  [SpareToCome[p] EXCEPT !.there = "row", !.key = IF p = 1 THEN "broken" ELSE "none"]]

\* YouTube as seeded, with a spare row of the same priority.
TwoAlike == [p \in {1, 2} |->
  [there |-> "row", active |-> TRUE, priority |-> 1, type |-> "ytdlp", key |-> "none"]]

\* A site that throttles, or says something unheard of.
PlainErrors == {{"rate_limited"}, {}}

\* "HTTP Error 503: Service Unavailable".
Unavailable == {{"not_found", "provider_down"}}

InstagramRows == {SpareToCome, KeyLost}
YouTubeRows == {TwoAlike}
=============================================================================
