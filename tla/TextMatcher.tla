---------------------------- MODULE TextMatcher ----------------------------
(***************************************************************************)
(* Candidates for a Chinese name: the texts whose pinyin resembles what    *)
(* was typed, best first, and before them those that look like the text.   *)
(*                                                                         *)
(*   pkg/chars_matcher/pinyin_chars_matcher.py                             *)
(*   pkg/chars_matcher/shape_chars_matcher.py, matcher.py                  *)
(*                                                                         *)
(* A text, one character or a surname of two, is a model value; a pinyin   *)
(* key is the sequence of its letters.  Threads share one matcher and its  *)
(* cache of results, which has no lock.                                    *)
(***************************************************************************)
EXTENDS Integers, FiniteSets, Lists

CONSTANTS
  Caller,     \* threads that ask
  QueriesOf,  \* what each may ask: type, text or NoText, and typed tokens
  NoText,
  Dictionary, \* of each type, "char" and "surname": pairs of a key and its texts
  Letter,     \* what keys and tokens consist of
  Canonical,  \* the key that the pinyin library gives a text
  Override,   \* the preferred key of some surnames, <<>> for the others
  TwoChars,   \* the texts of two characters
  Neighbors,  \* shape_neighbors of a text
  Components, \* its component tokens, without itself
  BoostN,     \* _SHAPE_BOOST_TOP_N
  CacheSize   \* _RESULT_CACHE_MAX_SIZE

Consonants == {"b", "p", "m", "f", "d", "t", "n", "l", "g", "k", "h", "j", "q", "x", "r",
               "z", "c", "s", "y", "w"}

ASSUME MatcherAssumption ==
  /\ BoostN \in Nat /\ CacheSize \in Nat \ {0} /\ \A c \in Caller : QueriesOf[c] # {}
  /\ \A type \in {"char", "surname"} : \A i, j \in DOMAIN Dictionary[type] :
       Dictionary[type][i][1] = Dictionary[type][j][1] => i = j
  /\ Consonants \subseteq Letter
  /\ Dictionary \in [{"char", "surname"} -> Seq(Seq(Letter) \X Seq(DOMAIN Canonical))]
  /\ Canonical \in [DOMAIN Canonical -> Seq(Letter)]
  /\ Override \in [DOMAIN Canonical -> Seq(Letter)]
  /\ Neighbors \in [DOMAIN Canonical -> Seq(DOMAIN Canonical)]
  /\ NoText \notin DOMAIN Canonical
  /\ \A c \in Caller :
       QueriesOf[c] \subseteq [type : {"char", "surname"}, text : DOMAIN Canonical \cup {NoText},
                              typed : Seq(Seq(Letter))]
  /\ \A c \in Caller : \A q \in QueriesOf[c] : q.text = NoText => q.typed # <<>>

VARIABLES
  cache,    \* the cached results: query and result, the least recently used first
  typing,   \* where each caller is
  asked,    \* its query
  ranked    \* its candidates, and at last its answer

matcherVars == <<cache, typing, asked, ranked>>

-----------------------------------------------------------------------------
(* Pinyin *)

\* Lexicographic order of two tuples of one length.
Less(a, b) ==
  \E i \in DOMAIN a : a[i] < b[i] /\ \A j \in 1 .. i - 1 : a[j] = b[j]

\* Of several entries of a text or key the first one counts.
Firsts(entries) == {e \in entries : ~\E f \in entries : f.of = e.of /\ Less(f.rank, e.rank)}

\* What a set of entries is about, the smallest rank first.
InOrder(entries) ==
  [n \in 1 .. Cardinality(entries) |->
    (CHOOSE e \in entries : Cardinality({f \in entries : Less(f.rank, e.rank)}) = n - 1).of]

KeysIn(type)  == [i \in DOMAIN Dictionary[type] |-> Dictionary[type][i][1]]
Bucket(type, key) ==
  LET i == CHOOSE i \in DOMAIN Dictionary[type] : Dictionary[type][i][1] = key
  IN Dictionary[type][i][2]
KeysOf(type, text) ==
  Kept(KeysIn(type), {key \in ToSet(KeysIn(type)) : text \in ToSet(Bucket(type, key))})

\* The preferred key first, the others in the order of the dictionary.
OrderKeys(type, text, keys) ==
  LET surname   == type = "surname" /\ text \notin TwoChars /\ Override[text] \in ToSet(keys)
      preferred == IF surname THEN Override[text] ELSE Canonical[text]
  IN IF preferred \in ToSet(keys)
     THEN <<preferred>> \o Kept(keys, ToSet(keys) \ {preferred}) ELSE keys

\* The keys of a text: of its type; of a character, for a surname of one; or what the
\* library says.
TextKeys(type, text) ==
  LET own   == KeysOf(type, text)
      other == KeysOf("char", text)
  IN CASE own # <<>> -> IF type = "surname" /\ text \in TwoChars THEN <<own[1]>>
                        ELSE OrderKeys(type, text, own)
       [] own = <<>> /\ type = "surname" /\ text \notin TwoChars /\ other # <<>> ->
            OrderKeys(type, text, other)
       [] OTHER -> IF Canonical[text] = <<>> THEN <<>> ELSE <<Canonical[text]>>

Initials == {<<"z", "h">>, <<"c", "h">>, <<"s", "h">>} \cup {<<l>> : l \in Consonants}
FuzzyPairs ==
  << << <<"z">>, <<"z", "h">> >>, << <<"c">>, <<"c", "h">> >>, << <<"s">>, <<"s", "h">> >>,
     << <<"l">>, <<"n">> >>, << <<"l">>, <<"r">> >>, << <<"f">>, <<"h">> >> >>

\* The longest initial that the token starts with.
Initial(token) ==
  LET found == {i \in Initials : IsPrefix(i, token)}
  IN IF found = {} THEN <<>> ELSE CHOOSE i \in found : \A j \in found : Len(j) <= Len(i)

\* The token as it is said and confused, in the initial and in the final: an, en, in and
\* ang, eng, ing, which also stand for ian, uan, iang and uang.  place is the order in which
\* they are tried, edits how many sounds are confused.
FuzzyInitials(initial) ==
  {<<initial, 0>>} \cup
  UNION {{<<FuzzyPairs[i][3 - side], i>> : side \in {k \in 1 .. 2 : FuzzyPairs[i][k] = initial}} :
           i \in DOMAIN FuzzyPairs}
FuzzyFinals(final) ==
  {<<final, 0>>} \cup
  {<<Append(final, "g"), 1>> : v \in {v \in {"a", "e", "i"} : IsSuffix(<<v, "n">>, final)}} \cup
  {<<Front(final), 1>> : v \in {v \in {"a", "e", "i"} : IsSuffix(<<v, "n", "g">>, final)}}

Penalty(bad) == IF bad THEN 1 ELSE 0

Variants(token) ==
  {[key |-> i[1] \o f[1], edits |-> Penalty(i[2] # 0) + Penalty(f[2] # 0), place |-> <<i[2], f[2]>>] :
     i \in FuzzyInitials(Initial(token)),
     f \in FuzzyFinals(SubSeq(token, Len(Initial(token)) + 1, Len(token)))}

Exact == 0
Fuzzy == 1
Prefix == 2

\* A match of a key; rank is the order in which it is found.
Match(v, key, kind, place) ==
  [of |-> key, way |-> <<kind, v.edits, Len(key) - Len(v.key)>>, rank |-> v.place \o <<place>>]

WholeMatches(type, variants) ==
  {Match(v, v.key, IF v.edits = 0 THEN Exact ELSE Fuzzy, 0) :
     v \in {v \in variants : v.key \in ToSet(KeysIn(type))}}
StartMatches(type, variants) ==
  UNION {{Match(v, KeysIn(type)[k], Prefix, k) :
            k \in {k \in DOMAIN KeysIn(type) : IsPrefix(v.key, KeysIn(type)[k])}} : v \in variants}

\* The keys that a token matches: as it is, confused, or as the start of the key, which
\* counts for a surname or if nothing else was found.
MatchKeys(type, token) ==
  LET whole    == Firsts(WholeMatches(type, Variants(token)))
      prefixes == {m \in Firsts(StartMatches(type, Variants(token))) :
                     m.of \notin {w.of : w \in WholeMatches(type, Variants(token))}}
  IN IF type = "surname" \/ whole = {} THEN whole \cup prefixes ELSE whole

\* How well a text of the bucket of a matched key answers the query: smaller is better.
Rank(q, key, way, index) ==
  LET text == Bucket(q.type, key)[index]
  IN way \o <<Penalty(text # q.text), Penalty(TextKeys(q.type, text)[1] # key), index>>

\* What was typed, or the keys of the text itself.
Tokens(q) == IF q.typed # <<>> THEN q.typed ELSE TextKeys(q.type, q.text)

\* The text at i in the bucket of a key that a token matches; occurrences of one rank come in
\* the order in which they are seen.
Occurrence(q, t, m, i) ==
  [of   |-> Bucket(q.type, m.of)[i],
   rank |-> Rank(q, m.of, m.way, i) \o <<t, m.way[1]>> \o m.rank]

Occurrences(q) ==
  UNION {UNION {{Occurrence(q, t, m, i) : i \in DOMAIN Bucket(q.type, m.of)} :
                  m \in MatchKeys(q.type, Tokens(q)[t])} : t \in DOMAIN Tokens(q)}

\* Each candidate counts with its best occurrence.
Candidates(q) == InOrder(Firsts(Occurrences(q)))

-----------------------------------------------------------------------------
(* Shape *)

Nowhere == 1000000
IndexOf(e, s) ==
  IF e \in ToSet(s) THEN CHOOSE i \in DOMAIN s : s[i] = e /\ \A j \in DOMAIN s : s[j] = e => i <= j
  ELSE Nowhere

ContainsScore(text, c) ==
  CASE text \notin ToSet(Components[c]) -> 2
    [] text \in ToSet(Components[c]) -> IF Components[c][1] = text THEN 0 ELSE 1

\* Shared components, better if one of them is the first.
ComponentScore(text, c) ==
  LET shared == ToSet(Components[text]) \cap ToSet(Components[c])
  IN IF shared = {} THEN 3
     ELSE IF {Components[text][1], Components[c][1]} \cap shared # {} THEN 1 ELSE 2

ShapeRank(text, c) ==
  <<Penalty(c # text), IndexOf(c, Neighbors[text]), IndexOf(text, Neighbors[c]),
    ContainsScore(text, c), ComponentScore(text, c)>>

ByShape(text, candidates) ==
  InOrder({[of |-> candidates[i], rank |-> ShapeRank(text, candidates[i]) \o <<i>>] :
             i \in DOMAIN candidates})


\* One more than asked for, since the text itself may be among them and is dropped.
TopByShape(text, candidates, n) ==
  FirstOf(Kept(FirstOf(ByShape(text, candidates), n + 1), ToSet(candidates) \ {text}), n)

\* The text, those that look like it, the others.
Boost(text, candidates) ==
  LET top == TopByShape(text, candidates, BoostN)
  IN <<text>> \o top \o Kept(candidates, ToSet(candidates) \ (ToSet(top) \cup {text}))

-----------------------------------------------------------------------------

MatcherInit ==
  /\ cache = <<>> /\ typing = [c \in Caller |-> "idle"]
  /\ asked = [c \in Caller |-> CHOOSE q \in QueriesOf[c] : TRUE]
  /\ ranked = [c \in Caller |-> <<>>]

\* Only typed pinyin leaves the text of the query open.
AskMatcher(c, q) ==
  /\ typing[c] = "idle"
  /\ asked' = [asked EXCEPT ![c] = q]
  /\ typing' = [typing EXCEPT ![c] = "lookup"]
  /\ UNCHANGED <<cache, ranked>>

CacheKey_NoText(q) == <<Tokens(q), q.type>>

CacheKey(q) == <<Tokens(q), q.type, q.text>>

Without(key) == Kept(cache, {entry \in ToSet(cache) : entry[1] # key})

Cached(key) == \E i \in DOMAIN cache : cache[i][1] = key

\* A hit moves the entry to the end; if another thread drops it in between, it is a miss.
LookUp(c) ==
  /\ typing[c] = "lookup"
  /\ \/ \E i \in DOMAIN cache :
          /\ cache[i][1] = CacheKey(asked[c])
          /\ cache' = Append(Without(cache[i][1]), cache[i])
          /\ ranked' = [ranked EXCEPT ![c] = cache[i][2]]
          /\ typing' = [typing EXCEPT ![c] = "ranked"]
     \/ typing' = [typing EXCEPT ![c] = "rank"] /\ UNCHANGED <<cache, ranked>>
  /\ UNCHANGED asked

\* The result goes to the cache, where it replaces an older one in its place.
RankCandidates(c) ==
  /\ typing[c] = "rank"
  /\ LET entry == <<CacheKey(asked[c]), Candidates(asked[c])>>
     IN /\ ranked' = [ranked EXCEPT ![c] = entry[2]]
        /\ cache' = IF Cached(entry[1])
                    THEN [i \in DOMAIN cache |-> IF cache[i][1] = entry[1] THEN entry ELSE cache[i]]
                    ELSE Append(cache, entry)
  /\ typing' = [typing EXCEPT ![c] = "move"]
  /\ UNCHANGED asked

\* It moves to the end; if another thread has dropped it by now, that is all.
MoveToEnd(c) ==
  /\ typing[c] = "move"
  /\ \/ \E i \in DOMAIN cache :
          /\ cache[i][1] = CacheKey(asked[c])
          /\ cache' = Append(Without(cache[i][1]), cache[i])
          /\ typing' = [typing EXCEPT ![c] = "size"]
     \/ ~Cached(CacheKey(asked[c])) /\ typing' = [typing EXCEPT ![c] = "ranked"] /\ UNCHANGED cache
  /\ UNCHANGED <<asked, ranked>>

CheckSize(c) ==
  /\ typing[c] = "size"
  /\ typing' = [typing EXCEPT ![c] = IF Len(cache) > CacheSize THEN "drop" ELSE "ranked"]
  /\ UNCHANGED <<cache, asked, ranked>>

\* The oldest result makes room, even if other threads have made room since.
DropOldest(c) ==
  /\ typing[c] = "drop"
  /\ cache' = IF cache = <<>> THEN cache ELSE Tail(cache)
  /\ typing' = [typing EXCEPT ![c] = "ranked"]
  /\ UNCHANGED <<asked, ranked>>

\* A query for one character gets what looks like it to the front.
GiveCandidates(c) ==
  /\ typing[c] = "ranked"
  /\ LET text == asked[c].text
     IN ranked' = IF text = NoText \/ text \in TwoChars THEN ranked
                  ELSE [ranked EXCEPT ![c] = Boost(text, @)]
  /\ typing' = [typing EXCEPT ![c] = "done"]
  /\ UNCHANGED <<cache, asked>>

MatcherNext ==
  \E c \in Caller :
    \/ \E q \in QueriesOf[c] : AskMatcher(c, q)
    \/ LookUp(c) \/ RankCandidates(c) \/ MoveToEnd(c) \/ CheckSize(c) \/ DropOldest(c)
    \/ GiveCandidates(c)

MatcherSpec == MatcherInit /\ [][MatcherNext]_matcherVars

-----------------------------------------------------------------------------
(* Properties *)

MatcherTypeOK ==
  /\ typing \in [Caller -> {"idle", "lookup", "rank", "move", "size", "drop", "ranked", "done"}]
  /\ \A c \in Caller : asked[c] \in QueriesOf[c]
  /\ ranked \in [Caller -> Seq(DOMAIN Canonical)]

\* Every way in which a token matches a key, found independently of the order of search.
Ways(q, token, key) ==
  LET found == Variants(token)
      whole == {v \in found : v.key \in ToSet(KeysIn(q.type))}
  IN {<<IF v.edits = 0 THEN Exact ELSE Fuzzy, v.edits, 0>> : v \in {w \in whole : w.key = key}}
     \cup (IF q.type = "surname" \/ whole = {}
           THEN {<<Prefix, v.edits, Len(key) - Len(v.key)>> : v \in {w \in found : IsPrefix(w.key, key)}}
           ELSE {})
RanksOf(q, text) ==
  UNION {UNION {{Rank(q, key, way, IndexOf(text, Bucket(q.type, key))) : way \in Ways(q, token, key)} :
                  key \in ToSet(KeysOf(q.type, text))} : token \in ToSet(Tokens(q))}
BestRank(q, text) ==
  CHOOSE r \in RanksOf(q, text) : \A s \in RanksOf(q, text) : ~Less(s, r)

\* Whatever other threads asked, cached and evicted, the candidates of a query are the
\* texts that its tokens match in any way, each once, in the order of the best way.
RankingIsBest ==
  \A c \in Caller : typing[c] = "ranked" =>
    LET q == asked[c]
        result == ranked[c]
    IN /\ ToSet(result) = {text \in DOMAIN Canonical : RanksOf(q, text) # {}}
       /\ IsInjective(result)
       /\ \A i \in 1 .. Len(result) - 1 :
            ~Less(BestRank(q, result[i + 1]), BestRank(q, result[i]))

\* The answer to a query for a character is that character, then as many as possible up to
\* BoostN of the candidates, none of the others looks more like it, then the others in the
\* order of their pinyin, and nothing twice.
BoostIsExact ==
  \A c \in Caller : typing[c] = "done" /\ asked[c].text \notin TwoChars \cup {NoText} =>
    LET text   == asked[c].text
        answer == ranked[c]
        others == Kept(Candidates(asked[c]), DOMAIN Canonical \ {text})
        n      == IF BoostN < Len(others) THEN BoostN ELSE Len(others)
        top    == SubSeq(answer, 2, n + 1)
    IN /\ answer[1] = text /\ IsInjective(answer)
       /\ ToSet(answer) = ToSet(others) \cup {text}
       /\ \A a \in ToSet(top), b \in ToSet(others) \ ToSet(top) :
            ~Less(ShapeRank(text, b), ShapeRank(text, a))
       /\ SubSeq(answer, n + 2, Len(answer)) = Kept(others, ToSet(others) \ ToSet(top))

\* A caller gets from the cache, which other queries fill and empty in any order, what ranking
\* its own query would have given.
CacheIsTransparent ==
  \A c \in Caller : typing[c] = "ranked" => ranked[c] = Candidates(asked[c])

\* What is suggested is complete and in the promised order, by pinyin and by shape.
SuggestionsAreBest == RankingIsBest /\ BoostIsExact /\ CacheIsTransparent
=============================================================================
