------------------------------- MODULE Search -------------------------------
(***************************************************************************)
(* The decisions of the public listing, _list_skills_impl of               *)
(* app/api/skills.py: which mode a search runs in, how it weighs its two   *)
(* signals, which rows it returns and the reason it gives for each.  A row *)
(* is what a query can match in it and whether it has an embedding.        *)
(* Scores are in hundredths; a distance of two vectors is never so large   *)
(* that its score is nothing.                                              *)
(***************************************************************************)
EXTENDS Integers

Modes  == {"keyword", "vector", "hybrid"}
Fields == {"name", "slug", "summary", "description", "tag", "content"}

\* text: the query is not blank; embeds: the embedding model answered for it;
\* weights: the parameter, "bad" when it does not parse or names one weight only.
Numbers  == {-1, 0, 1, 3}
Requests == [text: BOOLEAN, mode: Modes, embeds: BOOLEAN,
             weights: {<<>>, <<"bad">>} \cup {<<k, v>> : k, v \in Numbers}]

SearchRows == [matches: SUBSET Fields, embedded: BOOLEAN]

(***************************************************************************)
(* Weights: keyword and vector, over their sum                             *)
(***************************************************************************)
Refused == <<0, 0, 0>>

\* _parse_search_weights as <<keyword, vector, total>>; Refused is status 422.
ParsedWeights(mode, raw) ==
    CASE mode = "keyword" -> <<1, 0, 1>>
      [] mode = "vector"  -> <<0, 1, 1>>
      [] mode = "hybrid" /\ raw = <<>> -> <<45, 55, 100>>
      [] mode = "hybrid" /\ raw = <<"bad">> -> Refused
      [] OTHER -> IF raw[1] < 0 \/ raw[2] < 0 \/ raw[1] + raw[2] <= 0 THEN Refused
                  ELSE <<raw[1], raw[2], raw[1] + raw[2]>>

\* Mutant of ActiveMode: a search by vector alone stays one without an embedding.
ActiveModeHybridOnly(r) ==
    IF r.text /\ r.mode = "hybrid" /\ ~r.embeds THEN "keyword" ELSE r.mode

\* _resolve_active_mode: without an embedding the search falls back to keywords.
ActiveMode(r) ==
    IF r.text /\ r.mode \in {"vector", "hybrid"} /\ ~r.embeds THEN "keyword" ELSE r.mode

FellBack(r) == ActiveMode(r) # r.mode

Weights(r) ==
    IF ParsedWeights(r.mode, r.weights) = Refused THEN Refused
    ELSE IF ActiveMode(r) = "keyword" THEN <<1, 0, 1>> ELSE ParsedWeights(r.mode, r.weights)

(***************************************************************************)
(* Rows and reasons                                                        *)
(***************************************************************************)
Points == [f \in Fields |->
    CASE f = "name" -> 100 [] f = "slug" -> 90 [] f = "tag" -> 80
      [] f = "summary" -> 75 [] f = "description" -> 65 [] OTHER -> 20]

KeywordScore(r, row) ==
    LET For(f) == IF f \in row.matches THEN Points[f] ELSE 0
    IN  IF ~r.text THEN 0
        ELSE For("name") + For("slug") + For("summary")
             + For("description") + For("tag") + For("content")

\* One over one plus the distance, where there are two vectors to compare.
VectorScore(r, row) == IF r.text /\ r.embeds /\ row.embedded THEN 50 ELSE 0

\* The filter of the search, besides visibility, category and tags.
Selected(r, row) ==
    r.text =>
        CASE ActiveMode(r) = "keyword" -> row.matches # {}
          [] ActiveMode(r) = "vector"  -> row.embedded
          [] OTHER -> row.matches # {} \/ row.embedded

\* _build_match_reason, and the sort order where nothing was searched for.
Reason(r, row) ==
    LET k == KeywordScore(r, row)
        v == VectorScore(r, row)
    IN
    IF ~r.text THEN "sorted"
    ELSE IF FellBack(r) THEN IF k > 0 THEN "keyword match (vector fallback)" ELSE "keyword fallback"
    ELSE IF ActiveMode(r) = "vector" THEN "semantic vector match"
    ELSE IF ActiveMode(r) = "hybrid"
         THEN IF k > 0 /\ v > 0 THEN "hybrid: keyword + vector"
              ELSE IF k > 0 THEN "hybrid: keyword-heavy" ELSE "hybrid: vector-heavy"
    ELSE IF k > 0 THEN "keyword relevance" ELSE "sorted result"

\* The order of the results: combined score, scaled by the weights' total.
Combined(r, row) ==
    Weights(r)[1] * KeywordScore(r, row) + Weights(r)[2] * VectorScore(r, row)

\* The signals a reason claims.
Claims(reason) ==
    CASE reason \in {"keyword match (vector fallback)", "hybrid: keyword-heavy",
                     "keyword relevance"} -> {"keyword"}
      [] reason \in {"semantic vector match", "hybrid: vector-heavy"} -> {"vector"}
      [] reason = "hybrid: keyword + vector" -> {"keyword", "vector"}
      [] OTHER -> {}
=============================================================================
