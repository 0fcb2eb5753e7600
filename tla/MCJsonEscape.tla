----------------------------- MODULE MCJsonEscape -----------------------------
(* JsonEscape over bytes on both sides of every boundary that it tests.      *)
EXTENDS JsonEscape

Leads == {193, 194, 223, 224, 225, 236, 237, 238, 239, 240, 241, 243, 244, 245}
Followers == {127, 128, 143, 144, 159, 160, 191, 192}
Plain == {0, 8, 9, 10, 12, 13, 31, 32, 34, 92, 255}

Pairs == {<<a, b>> : a, b \in Leads \cup Followers \cup Plain}
Triples == {<<a, b, c>> : a \in Leads, b, c \in Followers}
FollowedTriples == {<<a>> \o t : a \in {34, 128, 194, 226}, t \in Triples}
Quads == {<<a, b, c, d>> : a \in {239, 240, 241, 243, 244, 245}, b, c \in Followers,
                           d \in {127, 128, 191, 192}}

BoundaryTexts == {<<>>} \cup Pairs \cup Triples \cup FollowedTriples \cup Quads
=============================================================================
