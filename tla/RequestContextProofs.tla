------------------------- MODULE RequestContextProofs -------------------------
(***************************************************************************)
(* Safety of request contexts, for any users, sessions, layers and depth of *)
(* the stack: whom the events of a context are for, what becomes of an      *)
(* opt-out, and which spans get the ids of a request.                       *)
(***************************************************************************)
EXTENDS OtelSpans, FiniteSetTheorems, SequenceTheorems, TLAPS

USE ValuesAssumption

--------------------------------------------------------------------------
(* Request contexts: what was attached, and what they carry.               *)

IsSeq(s) == s \in Seq(Range(s))

LEMMA OwnRange ==
  ASSUME NEW S, NEW s \in Seq(S)
  PROVE  IsSeq(s) /\ Len(s) \in Nat /\ DOMAIN s = 1..Len(s)
<1>1. Len(s) \in Nat /\ s \in [1..Len(s) -> S] /\ DOMAIN s = 1..Len(s)
  BY LenProperties
<1>2. \A i \in 1..Len(s) : s[i] \in Range(s)
  BY <1>1 DEF Range
<1>3. s \in [1..Len(s) -> Range(s)]
  BY <1>1, <1>2
<1>4. s \in Seq(Range(s))
  BY <1>1, <1>3, SeqDef
<1>. QED BY <1>1, <1>4 DEF IsSeq

\* One more element.
LEMMA Appended ==
  ASSUME NEW s, IsSeq(s), NEW x
  PROVE  /\ IsSeq(Append(s, x)) /\ Len(s) \in Nat /\ DOMAIN s = 1..Len(s)
         /\ DOMAIN Append(s, x) = 1..Len(s) + 1 /\ Len(Append(s, x)) = Len(s) + 1
         /\ \A i \in 1..Len(s) : Append(s, x)[i] = s[i]
         /\ Append(s, x)[Len(s) + 1] = x /\ Append(s, x) # <<>>
<1>. DEFINE S == Range(s) \cup {x}
<1>1. s \in Seq(S) /\ x \in S
  BY SeqMonotonic DEF IsSeq
<1>. HIDE DEF S
<1>2. /\ Append(s, x) \in Seq(S) /\ Len(Append(s, x)) = Len(s) + 1 /\ Append(s, x) # <<>>
      /\ \A i \in 1..Len(s) : Append(s, x)[i] = s[i]
      /\ Append(s, x)[Len(s) + 1] = x
  BY <1>1, AppendProperties
<1>. QED BY <1>1, <1>2, OwnRange

\* All but the last.
LEMMA Fronted ==
  ASSUME NEW s, IsSeq(s), s # <<>>
  PROVE  /\ IsSeq(Front(s)) /\ Len(s) \in Nat \ {0} /\ DOMAIN s = 1..Len(s)
         /\ DOMAIN Front(s) = 1..Len(s) - 1
         /\ \A i \in 1..Len(s) - 1 : Front(s)[i] = s[i]
         /\ Last(s) = s[Len(s)]
<1>1. Len(s) \in Nat \ {0} /\ DOMAIN s = 1..Len(s) /\ \A i \in 1..Len(s) : s[i] \in Range(s)
  BY EmptySeq, LenProperties, ElementOfSeq DEF IsSeq
<1>2. /\ SubSeq(s, 1, Len(s) - 1) \in Seq(Range(s))
      /\ Len(SubSeq(s, 1, Len(s) - 1)) = IF 1 <= Len(s) - 1 THEN Len(s) - 1 - 1 + 1 ELSE 0
      /\ \A i \in 1..Len(s) - 1 - 1 + 1 : SubSeq(s, 1, Len(s) - 1)[i] = s[1 + i - 1]
  <2>1. 1 \in Int /\ Len(s) - 1 \in Int /\ \A i \in 1..Len(s) - 1 : s[i] \in Range(s)
    BY <1>1
  <2>. QED BY <2>1, SubSeqProperties
<1>. DEFINE front == SubSeq(s, 1, Len(s) - 1)
<1>3. Front(s) = front /\ Last(s) = s[Len(s)]
  BY DEF Front, Last
<1>4. Len(front) = Len(s) - 1 /\ \A i \in 1..Len(s) - 1 : front[i] = s[i]
  BY <1>1, <1>2
<1>5. IsSeq(front) /\ DOMAIN front = 1..Len(front)
  BY <1>2, OwnRange
<1>. HIDE DEF front
<1>. QED BY <1>1, <1>3, <1>4, <1>5

HasLast(S) == S # {} => \E i \in S : \A j \in S : j <= i

IsContext(ctx) ==
  ctx = [attached |-> ctx.attached, distinct |-> ctx.distinct, session |-> ctx.session,
         properties |-> ctx.properties, layers |-> ctx.layers, bridge |-> ctx.bridge, span |-> ctx.span]

\* A request context carries what was attached to it last.
ContextOK(ctx) ==
  /\ IsContext(ctx)
  /\ IsSeq(ctx.layers)
  /\ HasLast(GivingUser(ctx.layers)) /\ HasLast(GivingSession(ctx.layers)) /\ \A k : HasLast(Giving(ctx.layers, k))
  /\ ctx.distinct = UserOf(ctx.layers) /\ ctx.session = SessionOf(ctx.layers)
  /\ ctx.attached \in BOOLEAN /\ (ctx.attached <=> ctx.layers # <<>>)
  /\ ~ctx.attached => DOMAIN ctx.properties = {}
  /\ \A k : k \in DOMAIN ctx.properties <=> Giving(ctx.layers, k) # {}
  /\ \A k : Giving(ctx.layers, k) # {} =>
       ctx.properties[k] = Sanitize(LastGiven(ctx.layers, Giving(ctx.layers, k)).properties[k])

\* One more layer.
More(layers, l) == Append(layers, l)

\* The last of those that give a value gives it.
LEMMA LastStays ==
  ASSUME NEW layers, IsSeq(layers), NEW l, NEW giving, giving \subseteq 1..Len(layers), HasLast(giving), giving # {}
  PROVE  LastGiven(More(layers, l), giving) = LastGiven(layers, giving)
<1>. DEFINE more == More(layers, l)
            k == CHOOSE i \in giving : \A j \in giving : j <= i
<1>1. Len(layers) \in Nat /\ \A i \in 1..Len(layers) : more[i] = layers[i]
  BY Appended DEF More
<1>. HIDE DEF more
<1>2. k \in giving
  BY DEF HasLast
<1>3. more[k] = layers[k]
  BY <1>1, <1>2
<1>4. LastGiven(more, giving) = LastGiven(layers, giving)
  BY <1>3 DEF LastGiven
<1>. QED BY <1>4 DEF more

LEMMA LastIsNew ==
  ASSUME NEW layers, IsSeq(layers), NEW l, NEW giving, giving \subseteq 1..Len(layers)
  PROVE  /\ LastGiven(More(layers, l), giving \cup {Len(layers) + 1}) = l.given
         /\ HasLast(giving \cup {Len(layers) + 1})
<1>. DEFINE n == Len(layers) + 1
            more == More(layers, l)
<1>1. Len(layers) \in Nat /\ more[n] = l
  BY Appended DEF More
<1>. HIDE DEF more
<1>2. \A i \in giving \cup {n} : (\A j \in giving \cup {n} : j <= i) <=> i = n
  BY <1>1
<1>3. (CHOOSE i \in giving \cup {n} : \A j \in giving \cup {n} : j <= i) = n
  BY <1>2
<1>4. LastGiven(more, giving \cup {n}) = l.given
  BY <1>1, <1>3 DEF LastGiven
<1>5. HasLast(giving \cup {n})
  BY <1>2 DEF HasLast
<1>. QED BY <1>4, <1>5 DEF more

LEMMA VisibleOfMore ==
  ASSUME NEW layers, IsSeq(layers), NEW l, l.fresh \in BOOLEAN
  PROVE  /\ Visible(layers) \subseteq 1..Len(layers)
         /\ Visible(More(layers, l)) =
              IF l.fresh THEN {Len(layers) + 1} ELSE Visible(layers) \cup {Len(layers) + 1}
<1>. DEFINE n == Len(layers) + 1
            more == More(layers, l)
<1>1. /\ Len(layers) \in Nat /\ DOMAIN layers = 1..Len(layers) /\ DOMAIN more = 1..n
      /\ more[n] = l /\ \A i \in 1..Len(layers) : more[i] = layers[i]
  BY Appended DEF More
<1>. HIDE DEF more
<1>3. Visible(layers) \subseteq 1..Len(layers)
  BY <1>1 DEF Visible
<1>4. CASE l.fresh
  <2>0. n \in DOMAIN more /\ more[n].fresh = TRUE /\ n \in 1..n /\ \A i \in 1..n : i <= n
    BY <1>1, <1>4
  <2>1. \A i \in 1..n : i \in Visible(more) <=> i = n
    <3>1. ASSUME NEW i \in Visible(more) PROVE i = n
      <4>1. i \in 1..n /\ n <= i
        BY <1>1, <2>0, <3>1 DEF Visible
      <4>. QED BY <1>1, <2>0, <4>1
    <3>2. n \in Visible(more)
      BY <1>1, <2>0 DEF Visible
    <3>. QED BY <3>1, <3>2
  <2>2. Visible(more) \subseteq 1..n /\ n \in 1..n
    BY <1>1 DEF Visible
  <2>3. Visible(more) = {n}
    BY <2>1, <2>2
  <2>. QED BY <1>3, <1>4, <2>3 DEF more
<1>5. CASE ~l.fresh
  <2>1. \A i \in 1..Len(layers) : i \in Visible(more) <=> i \in Visible(layers)
    BY <1>1, <1>5 DEF Visible
  <2>2. n \in Visible(more) /\ Visible(more) \subseteq 1..n
    BY <1>1, <1>5 DEF Visible
  <2>3. \A i \in 1..n : i \in 1..Len(layers) \/ i = n
    BY <1>1
  <2>4. Visible(more) = Visible(layers) \cup {n}
    BY <1>3, <2>1, <2>2, <2>3
  <2>. QED BY <1>3, <1>5, <2>4 DEF more
<1>. QED BY <1>4, <1>5

\* What one more layer gives: G are those that gave it, gives whether it does.
LEMMA GivingMore ==
  ASSUME NEW layers, IsSeq(layers), NEW l, l.fresh \in BOOLEAN
  PROVE  /\ GivingUser(More(layers, l)) = (IF l.fresh THEN {} ELSE GivingUser(layers))
                                 \cup (IF Sanitize(l.given.distinct) # NoId THEN {Len(layers) + 1} ELSE {})
         /\ GivingSession(More(layers, l)) = (IF l.fresh THEN {} ELSE GivingSession(layers))
                                    \cup (IF Sanitize(l.given.session) # NoId THEN {Len(layers) + 1} ELSE {})
         /\ \A k : Giving(More(layers, l), k) = (IF l.fresh THEN {} ELSE Giving(layers, k))
                                       \cup (IF k \in DOMAIN l.given.properties THEN {Len(layers) + 1} ELSE {})
         /\ GivingUser(layers) \subseteq 1..Len(layers) /\ GivingSession(layers) \subseteq 1..Len(layers)
         /\ \A k : Giving(layers, k) \subseteq 1..Len(layers)
<1>. DEFINE n == Len(layers) + 1
            more == More(layers, l)
<1>1. /\ Len(layers) \in Nat /\ more[n] = l /\ \A i \in 1..Len(layers) : more[i] = layers[i]
  BY Appended DEF More
<1>3. Visible(layers) \subseteq 1..Len(layers) /\ Visible(more) = IF l.fresh THEN {n} ELSE Visible(layers) \cup {n}
  BY VisibleOfMore
<1>. HIDE DEF n, more
<1>4. GivingUser(more) = (IF l.fresh THEN {} ELSE GivingUser(layers)) \cup (IF Sanitize(l.given.distinct) # NoId THEN {n} ELSE {})
  BY <1>1, <1>3 DEF GivingUser
<1>5. GivingSession(more) = (IF l.fresh THEN {} ELSE GivingSession(layers)) \cup (IF Sanitize(l.given.session) # NoId THEN {n} ELSE {})
  BY <1>1, <1>3 DEF GivingSession
<1>6. \A k : Giving(more, k) = (IF l.fresh THEN {} ELSE Giving(layers, k)) \cup (IF k \in DOMAIN l.given.properties THEN {n} ELSE {})
  BY <1>1, <1>3 DEF Giving
<1>7. /\ GivingUser(layers) \subseteq 1..Len(layers) /\ GivingSession(layers) \subseteq 1..Len(layers)
      /\ \A k : Giving(layers, k) \subseteq 1..Len(layers)
  BY <1>3 DEF GivingUser, GivingSession, Giving
<1>. QED BY <1>4, <1>5, <1>6, <1>7 DEF n, more

\* Of those that gave a value before, and the new one if it does.
LEMMA OneIsLast ==
  ASSUME NEW layers, IsSeq(layers), NEW old, old \subseteq 1..Len(layers), HasLast(old),
         NEW new, new \in {{}, {Len(layers) + 1}}
  PROVE  HasLast(old \cup new)
<1>1. CASE new = {}
  <2>1. old \cup new = old
    BY <1>1
  <2>. QED BY <2>1
<1>2. CASE new = {Len(layers) + 1}
  BY <1>2, LastIsNew
<1>. QED BY <1>1, <1>2

\* WithRequestContext and WithFreshRequestContext.
LEMMA Attaching ==
  ASSUME NEW ctx, ContextOK(ctx), NEW given, NEW fresh \in BOOLEAN
  PROVE  /\ ContextOK(WithRequestContext(ctx, given, fresh))
         /\ WithRequestContext(ctx, given, fresh).bridge = ctx.bridge
         /\ WithRequestContext(ctx, given, fresh).span = ctx.span
<1>. DEFINE next == WithRequestContext(ctx, given, fresh)
            l == [given |-> given, fresh |-> fresh]
            base == IF fresh THEN NoContext ELSE ctx
            sane == [k \in DOMAIN given.properties |-> Sanitize(given.properties[k])]
<1>1. /\ next.layers = More(ctx.layers, l) /\ next.attached = TRUE
      /\ next.distinct = OrElse(given.distinct, base.distinct)
      /\ next.session = OrElse(given.session, base.session)
      /\ next.properties = Over(sane, base.properties)
      /\ next.bridge = ctx.bridge /\ next.span = ctx.span /\ IsContext(next)
  BY DEF WithRequestContext, More, IsContext
<1>2. l.given = given /\ l.fresh = fresh /\ l.fresh \in BOOLEAN
  OBVIOUS
<1>3. /\ fresh => base.distinct = NoId /\ base.session = NoId /\ base.properties = NoProperties
      /\ ~fresh => base = ctx
  BY DEF NoContext
<1>4. /\ DOMAIN sane = DOMAIN given.properties
      /\ \A k \in DOMAIN sane : sane[k] = Sanitize(given.properties[k])
  OBVIOUS
<1>. HIDE DEF next, l, base, sane
<1>5. IsSeq(ctx.layers) /\ IsSeq(next.layers) /\ next.layers # <<>>
  BY <1>1, Appended DEF ContextOK, More
<1>6. /\ GivingUser(next.layers) = (IF fresh THEN {} ELSE GivingUser(ctx.layers))
                                      \cup (IF Sanitize(given.distinct) # NoId THEN {Len(ctx.layers) + 1} ELSE {})
      /\ GivingSession(next.layers) = (IF fresh THEN {} ELSE GivingSession(ctx.layers))
                                      \cup (IF Sanitize(given.session) # NoId THEN {Len(ctx.layers) + 1} ELSE {})
      /\ \A k : Giving(next.layers, k) = (IF fresh THEN {} ELSE Giving(ctx.layers, k))
                                      \cup (IF k \in DOMAIN given.properties THEN {Len(ctx.layers) + 1} ELSE {})
      /\ GivingUser(ctx.layers) \subseteq 1..Len(ctx.layers) /\ GivingSession(ctx.layers) \subseteq 1..Len(ctx.layers)
      /\ \A k : Giving(ctx.layers, k) \subseteq 1..Len(ctx.layers)
  BY <1>1, <1>2, <1>5, GivingMore
<1>7. /\ HasLast(GivingUser(ctx.layers)) /\ HasLast(GivingSession(ctx.layers)) /\ \A k : HasLast(Giving(ctx.layers, k))
      /\ ctx.distinct = UserOf(ctx.layers) /\ ctx.session = SessionOf(ctx.layers)
  BY DEF ContextOK
<1>8. HasLast(GivingUser(next.layers)) /\ next.distinct = UserOf(next.layers)
  <2>. DEFINE G == GivingUser(next.layers)
              B == GivingUser(ctx.layers)
              old == IF fresh THEN {} ELSE B
              new == IF Sanitize(given.distinct) # NoId THEN {Len(ctx.layers) + 1} ELSE {}
  <2>1. G = old \cup new /\ old \subseteq 1..Len(ctx.layers) /\ HasLast(old) /\ new \in {{}, {Len(ctx.layers) + 1}}
    BY <1>6, <1>7 DEF HasLast
  <2>. HIDE DEF G, B, old, new
  <2>2. /\ HasLast(G)
        /\ new # {} => G # {} /\ LastGiven(next.layers, G) = given
        /\ new = {} => G = old /\ (old # {} => LastGiven(next.layers, G) = LastGiven(ctx.layers, old))
    <3>0. HasLast(old \cup new) /\ (new # {} => old \cup new # {})
      BY <1>5, <2>1, OneIsLast
    <3>1. LastGiven(More(ctx.layers, l), old \cup {Len(ctx.layers) + 1}) = l.given
      BY <1>5, <2>1, LastIsNew
    <3>2. new = {} => G = old
      BY <2>1
    <3>3. old # {} => LastGiven(More(ctx.layers, l), old) = LastGiven(ctx.layers, old)
      BY <1>5, <2>1, LastStays
    <3>. QED BY <1>1, <1>2, <2>1, <3>0, <3>1, <3>2, <3>3
  <2>3. CASE Sanitize(given.distinct) # NoId
    <3>1. Sanitize(given.distinct) = given.distinct /\ new # {}
      BY <2>3 DEF Sanitize, new
    <3>. QED BY <1>1, <2>2, <2>3, <3>1 DEF OrElse, UserOf, G
  <2>4. CASE Sanitize(given.distinct) = NoId /\ fresh
    <3>1. new = {} /\ old = {}
      BY <2>4 DEF new, old
    <3>. QED BY <1>1, <1>3, <2>2, <2>4, <3>1 DEF OrElse, UserOf, G
  <2>5. CASE Sanitize(given.distinct) = NoId /\ ~fresh
    <3>1. new = {} /\ old = B
      BY <2>5 DEF new, old
    <3>. QED BY <1>1, <1>3, <1>7, <2>2, <2>5, <3>1 DEF OrElse, UserOf, G, B
  <2>. QED BY <2>3, <2>4, <2>5
<1>9. HasLast(GivingSession(next.layers)) /\ next.session = SessionOf(next.layers)
  <2>. DEFINE G == GivingSession(next.layers)
              B == GivingSession(ctx.layers)
              old == IF fresh THEN {} ELSE B
              new == IF Sanitize(given.session) # NoId THEN {Len(ctx.layers) + 1} ELSE {}
  <2>1. G = old \cup new /\ old \subseteq 1..Len(ctx.layers) /\ HasLast(old) /\ new \in {{}, {Len(ctx.layers) + 1}}
    BY <1>6, <1>7 DEF HasLast
  <2>. HIDE DEF G, B, old, new
  <2>2. /\ HasLast(G)
        /\ new # {} => G # {} /\ LastGiven(next.layers, G) = given
        /\ new = {} => G = old /\ (old # {} => LastGiven(next.layers, G) = LastGiven(ctx.layers, old))
    <3>0. HasLast(old \cup new) /\ (new # {} => old \cup new # {})
      BY <1>5, <2>1, OneIsLast
    <3>1. LastGiven(More(ctx.layers, l), old \cup {Len(ctx.layers) + 1}) = l.given
      BY <1>5, <2>1, LastIsNew
    <3>2. new = {} => G = old
      BY <2>1
    <3>3. old # {} => LastGiven(More(ctx.layers, l), old) = LastGiven(ctx.layers, old)
      BY <1>5, <2>1, LastStays
    <3>. QED BY <1>1, <1>2, <2>1, <3>0, <3>1, <3>2, <3>3
  <2>3. CASE Sanitize(given.session) # NoId
    <3>1. Sanitize(given.session) = given.session /\ new # {}
      BY <2>3 DEF Sanitize, new
    <3>. QED BY <1>1, <2>2, <2>3, <3>1 DEF OrElse, SessionOf, G
  <2>4. CASE Sanitize(given.session) = NoId /\ fresh
    <3>1. new = {} /\ old = {}
      BY <2>4 DEF new, old
    <3>. QED BY <1>1, <1>3, <2>2, <2>4, <3>1 DEF OrElse, SessionOf, G
  <2>5. CASE Sanitize(given.session) = NoId /\ ~fresh
    <3>1. new = {} /\ old = B
      BY <2>5 DEF new, old
    <3>. QED BY <1>1, <1>3, <1>7, <2>2, <2>5, <3>1 DEF OrElse, SessionOf, G, B
  <2>. QED BY <2>3, <2>4, <2>5
<1>10. /\ DOMAIN next.properties = DOMAIN given.properties \cup DOMAIN base.properties
       /\ \A k \in DOMAIN given.properties : next.properties[k] = Sanitize(given.properties[k])
       /\ \A k \in DOMAIN base.properties \ DOMAIN given.properties : next.properties[k] = base.properties[k]
  BY <1>1, <1>4 DEF Over
<1>11. DOMAIN base.properties = IF fresh THEN {} ELSE DOMAIN ctx.properties
  BY <1>3 DEF NoProperties
<1>12. \A k : k \in DOMAIN next.properties <=> Giving(next.layers, k) # {}
  <2>. TAKE k
  <2>1. k \in DOMAIN ctx.properties <=> Giving(ctx.layers, k) # {}
    BY DEF ContextOK
  <2>. QED BY <1>6, <1>10, <1>11, <2>1
<1>13. ASSUME NEW k
       PROVE  /\ HasLast(Giving(next.layers, k))
              /\ Giving(next.layers, k) # {} => next.properties[k] =
                   Sanitize(LastGiven(next.layers, Giving(next.layers, k)).properties[k])
  <2>. DEFINE G == Giving(next.layers, k)
              B == Giving(ctx.layers, k)
              old == IF fresh THEN {} ELSE B
              new == IF k \in DOMAIN given.properties THEN {Len(ctx.layers) + 1} ELSE {}
  <2>1. G = old \cup new /\ old \subseteq 1..Len(ctx.layers) /\ HasLast(old) /\ new \in {{}, {Len(ctx.layers) + 1}}
    BY <1>6, <1>7 DEF HasLast
  <2>2. B # {} => k \in DOMAIN ctx.properties
          /\ ctx.properties[k] = Sanitize(LastGiven(ctx.layers, B).properties[k])
    BY DEF ContextOK
  <2>. HIDE DEF G, B, old, new
  <2>3. /\ HasLast(G)
        /\ new # {} => G # {} /\ LastGiven(next.layers, G) = given
        /\ new = {} => G = old /\ (old # {} => LastGiven(next.layers, G) = LastGiven(ctx.layers, old))
    <3>0. HasLast(old \cup new) /\ (new # {} => old \cup new # {})
      BY <1>5, <2>1, OneIsLast
    <3>1. LastGiven(More(ctx.layers, l), old \cup {Len(ctx.layers) + 1}) = l.given
      BY <1>5, <2>1, LastIsNew
    <3>2. new = {} => G = old
      BY <2>1
    <3>3. old # {} => LastGiven(More(ctx.layers, l), old) = LastGiven(ctx.layers, old)
      BY <1>5, <2>1, LastStays
    <3>. QED BY <1>1, <1>2, <2>1, <3>0, <3>1, <3>2, <3>3
  <2>4. CASE k \in DOMAIN given.properties
    <3>1. new # {}
      BY <2>4 DEF new
    <3>. QED BY <1>10, <2>3, <2>4, <3>1 DEF G
  <2>5. CASE k \notin DOMAIN given.properties /\ fresh
    <3>1. new = {} /\ old = {}
      BY <2>5 DEF new, old
    <3>. QED BY <2>3, <3>1 DEF G
  <2>6. CASE k \notin DOMAIN given.properties /\ ~fresh
    <3>1. new = {} /\ old = B
      BY <2>6 DEF new, old
    <3>. QED BY <1>3, <1>10, <1>11, <2>2, <2>3, <2>6, <3>1 DEF G
  <2>. QED BY <2>4, <2>5, <2>6
<1>14. \A k : HasLast(Giving(next.layers, k))
  BY <1>13
<1>15. \A k : Giving(next.layers, k) # {} =>
         next.properties[k] = Sanitize(LastGiven(next.layers, Giving(next.layers, k)).properties[k])
  BY <1>13
<1>16. /\ IsContext(next) /\ IsSeq(next.layers) /\ next.attached \in BOOLEAN
       /\ (next.attached <=> next.layers # <<>>) /\ (~next.attached => DOMAIN next.properties = {})
  BY <1>1, <1>5
<1>17. ContextOK(next)
  BY <1>8, <1>9, <1>12, <1>14, <1>15, <1>16 DEF ContextOK
<1>. QED BY <1>1, <1>17 DEF next

LEMMA NoneAttached == ContextOK(NoContext) /\ NoContext.bridge = 0 /\ NoContext.span = NoId /\ NoContext.layers = <<>>
<1>1. /\ NoContext.attached = FALSE /\ NoContext.distinct = NoId /\ NoContext.session = NoId
      /\ NoContext.properties = NoProperties /\ NoContext.layers = <<>>
      /\ NoContext.bridge = 0 /\ NoContext.span = NoId /\ IsContext(NoContext)
  BY DEF NoContext, IsContext
<1>2. DOMAIN <<>> = {} /\ IsSeq(<<>>)
  BY EmptySeq DEF IsSeq
<1>3. Visible(<<>>) = {}
  BY <1>2 DEF Visible
<1>4. GivingUser(<<>>) = {} /\ GivingSession(<<>>) = {} /\ \A k : Giving(<<>>, k) = {}
  BY <1>3 DEF GivingUser, GivingSession, Giving
<1>5. DOMAIN NoProperties = {}
  BY DEF NoProperties
<1>. QED BY <1>1, <1>2, <1>4, <1>5 DEF ContextOK, HasLast, UserOf, SessionOf

\* posthogotel and tracers put their own values into a context.
LEMMA Carried ==
  ASSUME NEW ctx, ContextOK(ctx), NEW x
  PROVE  /\ ContextOK([ctx EXCEPT !.bridge = x]) /\ [ctx EXCEPT !.bridge = x].bridge = x
         /\ [ctx EXCEPT !.bridge = x].span = ctx.span
         /\ ContextOK([ctx EXCEPT !.span = x]) /\ [ctx EXCEPT !.span = x].span = x
         /\ [ctx EXCEPT !.span = x].bridge = ctx.bridge
<1>. DEFINE a == [ctx EXCEPT !.bridge = x]
            b == [ctx EXCEPT !.span = x]
<1>1. IsContext(ctx)
  BY DEF ContextOK
<1>2. /\ a.attached = ctx.attached /\ a.distinct = ctx.distinct /\ a.session = ctx.session
      /\ a.properties = ctx.properties /\ a.layers = ctx.layers /\ a.bridge = x /\ a.span = ctx.span /\ IsContext(a)
  BY <1>1 DEF IsContext
<1>3. /\ b.attached = ctx.attached /\ b.distinct = ctx.distinct /\ b.session = ctx.session
      /\ b.properties = ctx.properties /\ b.layers = ctx.layers /\ b.span = x /\ b.bridge = ctx.bridge /\ IsContext(b)
  BY <1>1 DEF IsContext
<1>. HIDE DEF a, b
<1>4. ContextOK(a) /\ ContextOK(b)
  BY <1>2, <1>3 DEF ContextOK
<1>. QED BY <1>2, <1>3, <1>4 DEF a, b

--------------------------------------------------------------------------
(* Events: what they take from the context they are captured with.         *)

LEMMA Overriding ==
  ASSUME NEW f, NEW g
  PROVE  /\ DOMAIN Over(f, g) = DOMAIN f \cup DOMAIN g
         /\ \A k \in DOMAIN f : Over(f, g)[k] = f[k]
         /\ \A k \in DOMAIN g \ DOMAIN f : Over(f, g)[k] = g[k]
BY DEF Over

\* What resolveCaptureContext merges.
LEMMA Merging ==
  ASSUME NEW ctx, ContextOK(ctx), NEW explicit
  PROVE  LET merged == MergeContextProperties(ctx, explicit)
         IN  /\ Profile \in DOMAIN merged <=> Profile \in DOMAIN explicit \cup DOMAIN ctx.properties
             /\ Profile \in DOMAIN explicit => merged[Profile] = explicit[Profile]
             /\ Profile \in DOMAIN ctx.properties \ DOMAIN explicit => merged[Profile] = ctx.properties[Profile]
             /\ SessionId \in DOMAIN merged <=> SessionId \in DOMAIN explicit \cup DOMAIN ctx.properties \/ ctx.session # NoId
             /\ SessionId \in DOMAIN ctx.properties \ DOMAIN explicit => merged[SessionId] = ctx.properties[SessionId]
             /\ ctx.session # NoId /\ SessionId \notin DOMAIN explicit \cup DOMAIN ctx.properties =>
                  merged[SessionId] = ctx.session
<1>. DEFINE session == IF ctx.session = NoId THEN NoProperties ELSE Only(SessionId, ctx.session)
            inherited == Over(ctx.properties, session)
            merged == Over(explicit, inherited)
<1>1. /\ DOMAIN session = IF ctx.session = NoId THEN {} ELSE {SessionId}
      /\ ctx.session # NoId => session[SessionId] = ctx.session
  BY DEF NoProperties, Only
<1>2. Profile # SessionId
  BY DEF Profile, SessionId
<1>3. MergeContextProperties(ctx, explicit) = merged
  BY DEF MergeContextProperties
<1>. HIDE DEF session
<1>4. /\ DOMAIN inherited = DOMAIN ctx.properties \cup DOMAIN session
      /\ \A k \in DOMAIN ctx.properties : inherited[k] = ctx.properties[k]
      /\ \A k \in DOMAIN session \ DOMAIN ctx.properties : inherited[k] = session[k]
  BY Overriding
<1>. HIDE DEF inherited
<1>5. /\ DOMAIN merged = DOMAIN explicit \cup DOMAIN inherited
      /\ \A k \in DOMAIN explicit : merged[k] = explicit[k]
      /\ \A k \in DOMAIN inherited \ DOMAIN explicit : merged[k] = inherited[k]
  BY Overriding
<1>. HIDE DEF merged
<1>. QED BY <1>1, <1>2, <1>3, <1>4, <1>5

DefaultsOK == defaults \in {NoProperties, Only(Profile, TRUE)}

\* The defaults change no opt-out, and no session.
LEMMA Defaulting ==
  ASSUME DefaultsOK, NEW properties
  PROVE  /\ Profile \in DOMAIN properties /\ properties[Profile] = FALSE => WithDefaults(properties)[Profile] = FALSE
         /\ SessionId \in DOMAIN WithDefaults(properties) <=> SessionId \in DOMAIN properties
         /\ SessionId \in DOMAIN properties => WithDefaults(properties)[SessionId] = properties[SessionId]
<1>1. DOMAIN defaults \subseteq {Profile} /\ Profile # SessionId
  BY DEF DefaultsOK, NoProperties, Only, Profile, SessionId
<1>. DEFINE second == Over(defaults, properties)
            no == Only(Profile, FALSE)
            first == Over(no, second)
            optOut == Profile \in DOMAIN properties /\ properties[Profile] = FALSE
<1>2. WithDefaults(properties) = IF optOut THEN first ELSE second
  BY DEF WithDefaults
<1>3. DOMAIN no = {Profile} /\ no[Profile] = FALSE
  BY DEF Only
<1>. HIDE DEF no
<1>4. /\ DOMAIN second = DOMAIN defaults \cup DOMAIN properties
      /\ \A k \in DOMAIN properties \ DOMAIN defaults : second[k] = properties[k]
  BY Overriding
<1>. HIDE DEF second
<1>5. /\ DOMAIN first = DOMAIN no \cup DOMAIN second
      /\ \A k \in DOMAIN no : first[k] = no[k]
      /\ \A k \in DOMAIN second \ DOMAIN no : first[k] = second[k]
  BY Overriding
<1>. HIDE DEF first
<1>6. first[Profile] = FALSE
  BY <1>3, <1>5
<1>7. SessionId \in DOMAIN properties => second[SessionId] = properties[SessionId] /\ first[SessionId] = properties[SessionId]
  BY <1>1, <1>3, <1>4, <1>5
<1>8. (SessionId \in DOMAIN second <=> SessionId \in DOMAIN properties) /\ (SessionId \in DOMAIN first <=> SessionId \in DOMAIN properties)
  BY <1>1, <1>3, <1>4, <1>5
<1>9. CASE optOut
  BY <1>2, <1>6, <1>7, <1>8, <1>9
<1>10. CASE ~optOut
  BY <1>2, <1>7, <1>8, <1>10
<1>. QED BY <1>9, <1>10

\* What an event of a context says: for whom it is, whether it opts out, in which session.
Tells(event, ctx, distinct, given) ==
  LET user == IF distinct # NoId THEN distinct ELSE ctx.distinct
  IN  /\ event.ctx = ctx /\ event.explicit = distinct /\ event.given = given
      /\ event.kind = IF user = NoId /\ ~ctx.attached THEN "refused" ELSE "capture"
      /\ event.distinct = IF user = NoId THEN Generated ELSE user
      /\ event.asked = user
      /\ Profile \in DOMAIN given /\ given[Profile] = FALSE => event.properties[Profile] = FALSE
      /\ Profile \in DOMAIN ctx.properties \ DOMAIN given /\ ctx.properties[Profile] = FALSE =>
           event.properties[Profile] = FALSE
      /\ user = NoId /\ Profile \notin DOMAIN given \cup DOMAIN ctx.properties => event.properties[Profile] = FALSE
      /\ SessionId \in DOMAIN event.properties <=>
           SessionId \in DOMAIN given \cup DOMAIN ctx.properties \/ ctx.session # NoId
      /\ SessionId \in DOMAIN ctx.properties \ DOMAIN given => event.properties[SessionId] = ctx.properties[SessionId]
      /\ ctx.session # NoId /\ SessionId \notin DOMAIN given \cup DOMAIN ctx.properties =>
           event.properties[SessionId] = ctx.session

LEMMA Capturing ==
  ASSUME DefaultsOK, NEW ctx, ContextOK(ctx), NEW distinct, NEW given
  PROVE  Tells(CaptureEvent(ctx, distinct, given), ctx, distinct, given)
<1>. DEFINE event == CaptureEvent(ctx, distinct, given)
            user == IF distinct # NoId THEN distinct ELSE ctx.distinct
            merged == MergeContextProperties(ctx, given)
            no == Only(Profile, FALSE)
            personless == Over(merged, no)
            resolved == IF user = NoId THEN personless ELSE merged
<1>1. /\ event.ctx = ctx /\ event.explicit = distinct /\ event.given = given
      /\ event.kind = IF user = NoId /\ ~ctx.attached THEN "refused" ELSE "capture"
      /\ event.distinct = IF user = NoId THEN Generated ELSE user
      /\ event.asked = user
  BY DEF CaptureEvent, ResolveCaptureContext
<1>2. event.properties = WithDefaults(resolved)
  BY DEF CaptureEvent, ResolveCaptureContext
<1>3. DOMAIN no = {Profile} /\ no[Profile] = FALSE /\ Profile # SessionId
  BY DEF Only, Profile, SessionId
<1>. HIDE DEF no, event, user
<1>4. /\ Profile \in DOMAIN merged <=> Profile \in DOMAIN given \cup DOMAIN ctx.properties
      /\ Profile \in DOMAIN given => merged[Profile] = given[Profile]
      /\ Profile \in DOMAIN ctx.properties \ DOMAIN given => merged[Profile] = ctx.properties[Profile]
      /\ SessionId \in DOMAIN merged <=> SessionId \in DOMAIN given \cup DOMAIN ctx.properties \/ ctx.session # NoId
      /\ SessionId \in DOMAIN ctx.properties \ DOMAIN given => merged[SessionId] = ctx.properties[SessionId]
      /\ ctx.session # NoId /\ SessionId \notin DOMAIN given \cup DOMAIN ctx.properties => merged[SessionId] = ctx.session
  BY Merging
<1>. HIDE DEF merged
<1>5. /\ DOMAIN personless = DOMAIN merged \cup DOMAIN no
      /\ \A k \in DOMAIN merged : personless[k] = merged[k]
      /\ \A k \in DOMAIN no \ DOMAIN merged : personless[k] = no[k]
  BY Overriding
<1>. HIDE DEF personless
<1>6. /\ Profile \in DOMAIN merged => Profile \in DOMAIN resolved /\ resolved[Profile] = merged[Profile]
      /\ user = NoId /\ Profile \notin DOMAIN merged => Profile \in DOMAIN resolved /\ resolved[Profile] = FALSE
      /\ SessionId \in DOMAIN resolved <=> SessionId \in DOMAIN merged
      /\ SessionId \in DOMAIN merged => resolved[SessionId] = merged[SessionId]
  BY <1>3, <1>5
<1>. HIDE DEF resolved
<1>7. /\ Profile \in DOMAIN resolved /\ resolved[Profile] = FALSE => event.properties[Profile] = FALSE
      /\ SessionId \in DOMAIN event.properties <=> SessionId \in DOMAIN resolved
      /\ SessionId \in DOMAIN resolved => event.properties[SessionId] = resolved[SessionId]
  BY <1>2, Defaulting
<1>8. Profile \in DOMAIN merged /\ merged[Profile] = FALSE => event.properties[Profile] = FALSE
  BY <1>6, <1>7
<1>9. user = NoId /\ Profile \notin DOMAIN merged => event.properties[Profile] = FALSE
  BY <1>6, <1>7
<1>10. SessionId \in DOMAIN merged => event.properties[SessionId] = merged[SessionId]
  BY <1>6, <1>7
<1>11. SessionId \in DOMAIN event.properties <=> SessionId \in DOMAIN merged
  BY <1>6, <1>7
<1>. QED BY <1>1, <1>4, <1>8, <1>9, <1>10, <1>11 DEF event, user, Tells

--------------------------------------------------------------------------
(* The stack of handlers.                                                  *)

IsFrame(f) ==
  f = [ctx |-> f.ctx, capture |-> f.capture, status |-> f.status, wrote |-> f.wrote, clean |-> f.clean,
       bridge |-> f.bridge]

\* A context has the bridge of a handler that has not returned, and active are only those.
StackInv ==
  /\ IsSeq(frames)
  /\ \A i \in DOMAIN frames :
       /\ IsFrame(frames[i]) /\ ContextOK(frames[i].ctx)
       /\ frames[i].ctx.bridge = 0 \/ \E j \in 1..i : frames[j].bridge = frames[i].ctx.bridge
  /\ \A b \in active : \E i \in DOMAIN frames : frames[i].bridge = b
  /\ DefaultsOK

LEMMA StackInit == ContextInit => StackInv
<1>. SUFFICES ASSUME ContextInit PROVE StackInv
  OBVIOUS
<1>1. frames = <<>> /\ active = {} /\ DOMAIN frames = {} /\ IsSeq(frames)
  BY EmptySeq DEF ContextInit, IsSeq
<1>. QED BY <1>1 DEF StackInv, ContextInit, DefaultsOK

\* The context of the code that runs.
LEMMA CtxOK ==
  ASSUME StackInv
  PROVE  /\ ContextOK(Ctx)
         /\ Ctx.bridge = 0 \/ \E j \in DOMAIN frames : frames[j].bridge = Ctx.bridge
         /\ Ctx.span # NoId => \E j \in DOMAIN frames : frames[j].ctx.span = Ctx.span
<1>1. CASE frames = <<>>
  <2>1. Ctx = NoContext
    BY <1>1 DEF Ctx
  <2>. QED BY <2>1, NoneAttached
<1>2. CASE frames # <<>>
  <2>1. Len(frames) \in Nat \ {0} /\ DOMAIN frames = 1..Len(frames) /\ Last(frames) = frames[Len(frames)]
    BY <1>2, Fronted DEF StackInv
  <2>2. Ctx = frames[Len(frames)].ctx /\ Len(frames) \in DOMAIN frames
    BY <1>2, <2>1 DEF Ctx
  <2>. QED BY <2>1, <2>2 DEF StackInv
<1>. QED BY <1>1, <1>2

\* A handler is called.
LEMMA Called ==
  ASSUME StackInv, NEW f, IsFrame(f), ContextOK(f.ctx),
         f.ctx.bridge \in {0, f.bridge, Ctx.bridge},
         frames' = Append(frames, f), \A b \in active' : b \in active \/ b = f.bridge, defaults' = defaults
  PROVE  StackInv'
<1>. DEFINE n == Len(frames) + 1
<1>1. /\ IsSeq(frames') /\ Len(frames) \in Nat /\ DOMAIN frames = 1..Len(frames)
      /\ DOMAIN frames' = 1..n /\ (\A i \in 1..Len(frames) : frames'[i] = frames[i]) /\ frames'[n] = f
  BY Appended DEF StackInv
<1>2. \A i \in 1..n : i \in 1..Len(frames) \/ i = n
  BY <1>1
<1>3. ASSUME NEW i \in 1..Len(frames)
      PROVE  /\ IsFrame(frames'[i]) /\ ContextOK(frames'[i].ctx)
             /\ frames'[i].ctx.bridge = 0 \/ \E j \in 1..i : frames'[j].bridge = frames'[i].ctx.bridge
  <2>1. \A j \in 1..i : frames'[j] = frames[j]
    BY <1>1
  <2>2. frames'[i] = frames[i] /\ i \in DOMAIN frames
    BY <1>1
  <2>. QED BY <2>1, <2>2 DEF StackInv
<1>4. /\ IsFrame(frames'[n]) /\ ContextOK(frames'[n].ctx)
      /\ frames'[n].ctx.bridge = 0 \/ \E j \in 1..n : frames'[j].bridge = frames'[n].ctx.bridge
  <2>1. CASE f.ctx.bridge \in {0, f.bridge}
    <3>1. n \in 1..n
      BY <1>1
    <3>. QED BY <1>1, <2>1, <3>1
  <2>2. CASE f.ctx.bridge = Ctx.bridge
    <3>1. Ctx.bridge = 0 \/ \E j \in DOMAIN frames : frames[j].bridge = Ctx.bridge
      BY CtxOK
    <3>2. \A j \in DOMAIN frames : j \in 1..n /\ frames'[j] = frames[j]
      BY <1>1
    <3>. QED BY <1>1, <2>2, <3>1, <3>2
  <2>. QED BY <2>1, <2>2
<1>5. \A b \in active' : \E i \in DOMAIN frames' : frames'[i].bridge = b
  <2>. TAKE b \in active'
  <2>1. CASE b \in active
    <3>. PICK i \in DOMAIN frames : frames[i].bridge = b
      BY <2>1 DEF StackInv
    <3>1. i \in DOMAIN frames' /\ frames'[i] = frames[i]
      BY <1>1
    <3>. QED BY <3>1
  <2>2. CASE b = f.bridge
    <3>1. n \in DOMAIN frames'
      BY <1>1
    <3>. QED BY <1>1, <2>2, <3>1
  <2>. QED BY <2>1, <2>2
<1>. HIDE DEF n
<1>. QED BY <1>1, <1>2, <1>3, <1>4, <1>5 DEF StackInv, DefaultsOK

\* A handler is left.
LEMMA Left ==
  ASSUME StackInv, frames # <<>>, Pop, defaults' = defaults
  PROVE  StackInv'
<1>. DEFINE n == Len(frames)
<1>1. /\ IsSeq(frames') /\ n \in Nat \ {0} /\ DOMAIN frames = 1..n /\ DOMAIN frames' = 1..n - 1
      /\ \A i \in 1..n - 1 : frames'[i] = frames[i]
      /\ active' = active \ {frames[n].bridge}
  BY Fronted DEF StackInv, Pop
<1>2. \A i \in 1..n : i \in 1..n - 1 \/ i = n
  <2>1. n \in Nat \ {0}
    BY <1>1
  <2>. HIDE DEF n
  <2>. QED BY <2>1
<1>3. ASSUME NEW i \in 1..n - 1
      PROVE  /\ IsFrame(frames'[i]) /\ ContextOK(frames'[i].ctx)
             /\ frames'[i].ctx.bridge = 0 \/ \E j \in 1..i : frames'[j].bridge = frames'[i].ctx.bridge
  <2>1. \A j \in 1..i : frames'[j] = frames[j]
    BY <1>1
  <2>2. frames'[i] = frames[i] /\ i \in DOMAIN frames
    BY <1>1
  <2>. QED BY <2>1, <2>2 DEF StackInv
<1>4. \A b \in active' : \E i \in DOMAIN frames' : frames'[i].bridge = b
  <2>. TAKE b \in active'
  <2>. PICK i \in DOMAIN frames : frames[i].bridge = b
    BY <1>1 DEF StackInv
  <2>1. i # n
    BY <1>1
  <2>2. i \in DOMAIN frames' /\ frames'[i] = frames[i]
    BY <1>1, <1>2, <2>1
  <2>. QED BY <2>2
<1>. HIDE DEF n
<1>. QED BY <1>1, <1>3, <1>4 DEF StackInv, DefaultsOK

LEMMA StackRests ==
  ASSUME StackInv, UNCHANGED <<frames, active, defaults>>
  PROVE  StackInv'
BY DEF StackInv, DefaultsOK

\* The status of a response changes no context.
LEMMA Written ==
  ASSUME StackInv, NEW code, WriteHeader(code)
  PROVE  StackInv'
<1>1. /\ frames' = [i \in DOMAIN frames |->
                      IF frames[i].wrote THEN frames[i] ELSE [frames[i] EXCEPT !.status = code, !.wrote = TRUE]]
      /\ active' = active /\ defaults' = defaults
  BY DEF WriteHeader
<1>2. DOMAIN frames' = DOMAIN frames /\ \A i \in DOMAIN frames :
        IsFrame(frames'[i]) /\ frames'[i].ctx = frames[i].ctx /\ frames'[i].bridge = frames[i].bridge
  <2>. SUFFICES ASSUME NEW i \in DOMAIN frames
                PROVE  IsFrame(frames'[i]) /\ frames'[i].ctx = frames[i].ctx /\ frames'[i].bridge = frames[i].bridge
    BY <1>1
  <2>1. IsFrame(frames[i])
    BY DEF StackInv
  <2>2. CASE frames[i].wrote
    BY <1>1, <2>1, <2>2
  <2>3. CASE ~frames[i].wrote
    <3>. DEFINE early == [frames[i] EXCEPT !.status = code]
                yes == TRUE
                f == [early EXCEPT !.wrote = yes]
    <3>1. early.ctx = frames[i].ctx /\ early.bridge = frames[i].bridge /\ IsFrame(early)
      BY <2>1 DEF IsFrame
    <3>. HIDE DEF early
    <3>2. f.ctx = frames[i].ctx /\ f.bridge = frames[i].bridge /\ IsFrame(f)
      <4>. HIDE DEF yes
      <4>. QED BY <3>1 DEF IsFrame
    <3>3. frames'[i] = f
      BY <1>1, <2>3 DEF early
    <3>. QED BY <3>2, <3>3
  <2>. QED BY <2>2, <2>3
<1>3. IsSeq(frames')
  <2>1. frames \in Seq(Range(frames))
    BY DEF StackInv, IsSeq
  <2>2. Len(frames) \in Nat /\ DOMAIN frames = 1..Len(frames)
    BY <2>1, LenProperties
  <2>3. frames' \in [1..Len(frames) -> Range(frames')]
    BY <1>1, <2>2 DEF Range
  <2>4. frames' \in Seq(Range(frames'))
    BY <2>2, <2>3, SeqDef
  <2>. QED BY <2>4 DEF IsSeq
<1>4. \A i \in DOMAIN frames : \A j \in 1..i : j \in DOMAIN frames
  <2>1. Len(frames) \in Nat /\ DOMAIN frames = 1..Len(frames)
    BY LenProperties DEF StackInv, IsSeq
  <2>. QED BY <2>1
<1>5. \A i \in DOMAIN frames' :
        /\ IsFrame(frames'[i]) /\ ContextOK(frames'[i].ctx)
        /\ frames'[i].ctx.bridge = 0 \/ \E j \in 1..i : frames'[j].bridge = frames'[i].ctx.bridge
  BY <1>2, <1>4 DEF StackInv
<1>6. \A b \in active' : \E i \in DOMAIN frames' : frames'[i].bridge = b
  <2>. TAKE b \in active'
  <2>. PICK i \in DOMAIN frames : frames[i].bridge = b
    BY <1>1 DEF StackInv
  <2>. QED BY <1>2
<1>. QED BY <1>1, <1>3, <1>5, <1>6 DEF StackInv, DefaultsOK

\* The frames of Middleware and Attach.
LEMMA Scoping ==
  ASSUME NEW ctx, ContextOK(ctx)
  PROVE  IsFrame(Scope(ctx)) /\ Scope(ctx).ctx = ctx /\ Scope(ctx).bridge = 0
BY DEF IsFrame, Scope

LEMMA AttachKeeps ==
  ASSUME StackInv, NEW ctx, ContextOK(ctx), ctx.bridge = Ctx.bridge, Attach(ctx)
  PROVE  StackInv'
<1>1. frames' = Append(frames, Scope(ctx)) /\ active' = active /\ defaults' = defaults
  BY DEF Attach
<1>2. IsFrame(Scope(ctx)) /\ Scope(ctx).ctx = ctx /\ Scope(ctx).bridge = 0
  BY Scoping
<1>. QED BY <1>1, <1>2, Called

\* The frame that Middleware adds.
LEMMA MiddlewareCalls ==
  ASSUME NEW ctx, ContextOK(ctx), NEW capture, NEW bridge, Middleware(ctx, capture, bridge)
  PROVE  \E f : /\ frames' = Append(frames, f) /\ IsFrame(f) /\ ContextOK(f.ctx)
                /\ f.bridge = bridge /\ f.ctx.bridge = (IF bridge = 0 THEN ctx.bridge ELSE bridge)
                /\ f.ctx.span = ctx.span
<1>. DEFINE b == IF bridge = 0 THEN ctx.bridge ELSE bridge
            inner == [ctx EXCEPT !.bridge = b]
            scope == Scope(inner)
            capturing == [scope EXCEPT !.capture = capture]
            f == [capturing EXCEPT !.bridge = bridge]
<1>1. ContextOK(inner) /\ inner.bridge = b /\ inner.span = ctx.span
  <2>. HIDE DEF b
  <2>. QED BY Carried
<1>2. frames' = Append(frames, f)
  BY DEF Middleware
<1>. HIDE DEF inner
<1>3. IsFrame(scope) /\ scope.ctx = inner
  BY <1>1, Scoping
<1>. HIDE DEF b
<1>. HIDE DEF scope
<1>4. IsFrame(capturing) /\ capturing.ctx = inner
  BY <1>3 DEF IsFrame
<1>. HIDE DEF capturing
<1>5. IsFrame(f) /\ f.ctx = inner /\ f.bridge = bridge
  BY <1>4 DEF IsFrame
<1>. QED BY <1>1, <1>2, <1>5 DEF b

LEMMA MiddlewareKeeps ==
  ASSUME StackInv, NEW ctx, ContextOK(ctx), ctx.bridge = Ctx.bridge, NEW capture, NEW bridge,
         Middleware(ctx, capture, bridge)
  PROVE  StackInv'
<1>. PICK f : /\ frames' = Append(frames, f) /\ IsFrame(f) /\ ContextOK(f.ctx)
              /\ f.bridge = bridge /\ f.ctx.bridge = (IF bridge = 0 THEN ctx.bridge ELSE bridge)
  BY MiddlewareCalls
<1>1. f.ctx.bridge \in {0, f.bridge, Ctx.bridge}
  OBVIOUS
<1>2. defaults' = defaults /\ \A b \in active' : b \in active \/ b = f.bridge
  BY DEF Middleware
<1>. QED BY <1>1, <1>2, Called

LEMMA StackNextKeeps == StackInv /\ StackNext => StackInv'
<1>. SUFFICES ASSUME StackInv, StackNext PROVE StackInv'
  OBVIOUS
<1>1. CASE FrameReturns \/ Unwind
  <2>1. frames # <<>> /\ Pop /\ defaults' = defaults
    BY <1>1 DEF FrameReturns, Unwind
  <2>. QED BY <2>1, Left
<1>2. CASE Unwinds("panic") \/ Recovers
  <2>1. UNCHANGED <<frames, active, defaults>>
    BY <1>2 DEF Unwinds, Recovers, stackVars
  <2>. QED BY <2>1, StackRests
<1>. QED BY <1>1, <1>2 DEF StackNext

LEMMA StackKeeps == StackInv /\ [RequestNext]_contextVars => StackInv'
<1>. SUFFICES ASSUME StackInv, [RequestNext]_contextVars PROVE StackInv'
  OBVIOUS
<1>1. CASE Unwinds("exit") \/ Forwarded \/ UNCHANGED contextVars
           \/ \E distinct \in Users \cup {NoId}, given \in Given : EnqueueWithContext(distinct, given)
  <2>1. UNCHANGED <<frames, active, defaults>>
    BY <1>1 DEF Unwinds, Forwarded, EnqueueWithContext, stackVars, contextVars
  <2>. QED BY <2>1, StackRests
<1>2. CASE \E given \in Layers, fresh \in BOOLEAN : Attach(WithRequestContext(Ctx, given, fresh))
  <2>. PICK given \in Layers, fresh \in BOOLEAN : Attach(WithRequestContext(Ctx, given, fresh))
    BY <1>2
  <2>1. /\ ContextOK(WithRequestContext(Ctx, given, fresh))
        /\ WithRequestContext(Ctx, given, fresh).bridge = Ctx.bridge
    BY CtxOK, Attaching
  <2>. QED BY <2>1, AttachKeeps
<1>3. CASE \E tracing, capture \in BOOLEAN :
             Middleware(WithRequestContext(Ctx, ExtractRequestContext(tracing), TRUE), capture, 0)
  <2>. PICK tracing \in BOOLEAN, capture \in BOOLEAN :
         Middleware(WithRequestContext(Ctx, ExtractRequestContext(tracing), TRUE), capture, 0)
    BY <1>3
  <2>1. /\ ContextOK(WithRequestContext(Ctx, ExtractRequestContext(tracing), TRUE))
        /\ WithRequestContext(Ctx, ExtractRequestContext(tracing), TRUE).bridge = Ctx.bridge
    BY CtxOK, Attaching
  <2>. QED BY <2>1, MiddlewareKeeps
<1>4. CASE \E code \in Codes : WriteHeader(code)
  BY <1>4, Written
<1>5. CASE StackNext
  BY <1>5, StackNextKeeps
<1>. QED BY <1>1, <1>2, <1>3, <1>4, <1>5 DEF RequestNext

\* What an event says of the context it was captured with.
LEMMA Telling ==
  ASSUME StackInv, lastEvent' = NothingSent \/ \E distinct, given : lastEvent' = CaptureEvent(Ctx, distinct, given)
  PROVE  OneUserPerContext' /\ OptOutSurvives'
<1>1. CASE lastEvent' = NothingSent
  <2>1. lastEvent'.kind = "none"
    BY <1>1 DEF NothingSent
  <2>. QED BY <2>1 DEF OneUserPerContext, OptOutSurvives
<1>2. CASE \E distinct, given : lastEvent' = CaptureEvent(Ctx, distinct, given)
  <2>. PICK distinct, given : lastEvent' = CaptureEvent(Ctx, distinct, given)
    BY <1>2
  <2>. DEFINE ctx == Ctx
              event == CaptureEvent(ctx, distinct, given)
              user == IF distinct # NoId THEN distinct ELSE ctx.distinct
  <2>1. ContextOK(ctx) /\ DefaultsOK
    BY CtxOK DEF StackInv
  <2>. HIDE DEF ctx
  <2>0. Tells(event, ctx, distinct, given)
    BY <2>1, Capturing
  <2>. HIDE DEF event
  <2>2. /\ event.ctx = ctx /\ event.explicit = distinct /\ event.given = given
        /\ event.kind = IF user = NoId /\ ~ctx.attached THEN "refused" ELSE "capture"
        /\ event.distinct = IF user = NoId THEN Generated ELSE user
        /\ event.asked = user
        /\ Profile \in DOMAIN given /\ given[Profile] = FALSE => event.properties[Profile] = FALSE
        /\ Profile \in DOMAIN ctx.properties \ DOMAIN given /\ ctx.properties[Profile] = FALSE =>
             event.properties[Profile] = FALSE
        /\ user = NoId /\ Profile \notin DOMAIN given \cup DOMAIN ctx.properties => event.properties[Profile] = FALSE
        /\ ctx.session # NoId /\ SessionId \notin DOMAIN given \cup DOMAIN ctx.properties =>
             event.properties[SessionId] = ctx.session
    BY <2>0 DEF Tells
  <2>3. /\ ctx.distinct = UserOf(ctx.layers) /\ ctx.session = SessionOf(ctx.layers)
        /\ ctx.attached <=> ctx.layers # <<>>
        /\ \A k : k \in DOMAIN ctx.properties <=> Giving(ctx.layers, k) # {}
        /\ Giving(ctx.layers, Profile) # {} => ctx.properties[Profile] =
             Sanitize(LastGiven(ctx.layers, Giving(ctx.layers, Profile)).properties[Profile])
    BY <2>1 DEF ContextOK
  <2>4. lastEvent' = event
    BY DEF ctx, event
  <2>5. OneUserPerContext'
    <3>1. user = IF distinct # NoId THEN distinct ELSE UserOf(ctx.layers)
      BY <2>3
    <3>2. EvaluatedFor(ctx, distinct) = user
      BY DEF EvaluatedFor
    <3>3. event.kind = "refused" <=> user = NoId /\ ctx.layers = <<>>
      BY <2>2, <2>3
    <3>4. Giving(ctx.layers, SessionId) = {} => SessionId \notin DOMAIN ctx.properties
      BY <2>3
    <3>. HIDE DEF user
    <3>. QED BY <2>2, <2>3, <2>4, <3>1, <3>2, <3>3, <3>4 DEF OneUserPerContext
  <2>6. OptOutSurvives'
    <3>1. CASE Profile \in DOMAIN given
      BY <2>2, <2>4, <3>1 DEF OptOutSurvives
    <3>2. CASE Profile \notin DOMAIN given /\ Giving(ctx.layers, Profile) # {}
      <4>1. Profile \in DOMAIN ctx.properties
        BY <2>3, <3>2
      <4>2. LastGiven(ctx.layers, Giving(ctx.layers, Profile)).properties[Profile] = FALSE => ctx.properties[Profile] = FALSE
        BY <2>3, <3>2 DEF Sanitize
      <4>. QED BY <2>2, <2>4, <3>2, <4>1, <4>2 DEF OptOutSurvives
    <3>3. CASE Profile \notin DOMAIN given /\ Giving(ctx.layers, Profile) = {}
      <4>1. Profile \notin DOMAIN ctx.properties
        BY <2>3, <3>3
      <4>2. distinct = NoId /\ UserOf(ctx.layers) = NoId => user = NoId
        BY <2>3
      <4>. QED BY <2>2, <2>4, <3>3, <4>1, <4>2 DEF OptOutSurvives
    <3>. QED BY <3>1, <3>2, <3>3
  <2>. QED BY <2>5, <2>6
<1>. QED BY <1>1, <1>2

TellingInv == StackInv /\ OneUserPerContext /\ OptOutSurvives

LEMMA TellingInit == ContextInit => TellingInv
<1>. SUFFICES ASSUME ContextInit PROVE TellingInv
  OBVIOUS
<1>1. lastEvent.kind = "none"
  BY DEF ContextInit, NothingSent
<1>. QED BY <1>1, StackInit DEF TellingInv, OneUserPerContext, OptOutSurvives

LEMMA TellingNext == TellingInv /\ [RequestNext]_contextVars => TellingInv'
<1>. SUFFICES ASSUME TellingInv, [RequestNext]_contextVars PROVE TellingInv'
  OBVIOUS
<1>1. StackInv'
  BY StackKeeps DEF TellingInv
<1>2. CASE UNCHANGED lastEvent
  BY <1>1, <1>2 DEF TellingInv, OneUserPerContext, OptOutSurvives
<1>3. CASE lastEvent' = NothingSent \/ \E distinct, given : lastEvent' = CaptureEvent(Ctx, distinct, given)
  BY <1>1, <1>3, Telling DEF TellingInv
<1>. QED BY <1>2, <1>3 DEF RequestNext, StackNext, FrameReturns, Unwinds, Unwind, Recovers, Forwarded, Attach,
                           Middleware, WriteHeader, EnqueueWithContext, contextVars

\* Whatever was attached in whatever order, fresh or inherited: events, flag evaluations
\* and SendFeatureFlags name the same user, in the session attached last.
THEOREM ContextsNameOneUser == RequestSpec => []OneUserPerContext
<1>1. TellingInv => OneUserPerContext
  BY DEF TellingInv
<1>. QED BY <1>1, TellingInit, TellingNext, PTL DEF RequestSpec

\* An opt-out of person profiles survives the layers attached around it, and the defaults.
THEOREM OptOutsSurvive == RequestSpec => []OptOutSurvives
<1>1. TellingInv => OptOutSurvives
  BY DEF TellingInv
<1>. QED BY <1>1, TellingInit, TellingNext, PTL DEF RequestSpec

--------------------------------------------------------------------------
(* Panics: every middleware that captures reports the panic that passes it, *)
(* for its own context and with the status that was sent.                   *)

\* What a frame knows of the response: a status sent since it was called is its own,
\* unless a forwarded method sent the 200.
StatusOK(f, sent) ==
  /\ f.status \in Nat
  /\ f.clean /\ sent = 0 => ~f.wrote
  /\ f.clean /\ sent \notin {0, 200} => f.wrote /\ f.status = sent

\* The frames of stack above n that capture panics, and the place of a report among theirs.
Passed(stack, n) == {i \in n + 1..Len(stack) : stack[i].capture}
Place(passed, i) == Cardinality({j \in passed : j >= i})

\* The report of a panic that passed a frame.
ReportOf(event, frame, sent) ==
  LET user == UserOf(frame.ctx.layers)
  IN  /\ event.distinct = IF user = NoId THEN Generated ELSE user
      /\ event.status >= 400
      /\ frame.clean /\ sent >= 400 => event.status = sent

Told(list, passed, stack, sent) ==
  /\ Len(list) = Cardinality(passed)
  /\ \A i \in passed : ReportOf(list[Place(passed, i)].event, stack[i], sent)

UnwindingInv ==
  /\ sentStatus \in Nat
  /\ \A i \in DOMAIN frames : StatusOK(frames[i], sentStatus)
  /\ unwinding \in {"nothing", "panic", "exit"}
  /\ IsSeq(reports)
  /\ unwinding # "panic" => reports = <<>>
  /\ unwinding # "nothing" =>
       /\ IsSeq(atPanic) /\ Len(frames) <= Len(atPanic)
       /\ \A i \in DOMAIN frames : atPanic[i] = frames[i]
  /\ unwinding = "panic" => Told(reports, Passed(atPanic, Len(frames)), atPanic, sentStatus)

LEMMA UnwindingTells ==
  ASSUME UnwindingInv PROVE PanicsReportedOnce
<1>. DEFINE passed == {i \in Len(frames) + 1..Len(atPanic) : atPanic[i].capture}
<1>1. passed = Passed(atPanic, Len(frames))
  BY DEF Passed
<1>. HIDE DEF passed
<1>2. unwinding = "exit" => reports = <<>>
  BY DEF UnwindingInv
<1>3. unwinding \notin {"nothing", "exit"} => unwinding = "panic" /\ Told(reports, passed, atPanic, sentStatus)
  BY <1>1 DEF UnwindingInv
<1>. QED BY <1>2, <1>3 DEF PanicsReportedOnce, Told, Place, ReportOf, passed

\* The places of the reports are those of the list.
LEMMA PlaceInList ==
  ASSUME NEW P, IsFiniteSet(P), \A j \in P : j \in Nat, NEW i, i \in P
  PROVE  Place(P, i) \in 1..Cardinality(P)
<1>. DEFINE R == {j \in P : j >= i}
<1>1. R \in SUBSET P /\ i \in R
  OBVIOUS
<1>2. Place(P, i) = Cardinality(R)
  BY DEF Place
<1>. HIDE DEF R
<1>3. /\ Cardinality(P) \in Nat /\ Cardinality(R) \in Nat
      /\ Cardinality(R) <= Cardinality(P) /\ Cardinality(R) # 0
  BY <1>1, FS_Subset, FS_CardinalityType, FS_EmptySet
<1>. QED BY <1>2, <1>3

\* A frame below those that were passed is the next.
LEMMA NextPlace ==
  ASSUME NEW n, n \in Nat, NEW P, IsFiniteSet(P), \A j \in P : j \in Nat /\ j > n, NEW Q, Q = P \cup {n}
  PROVE  /\ Cardinality(P) \in Nat /\ Cardinality(Q) = Cardinality(P) + 1
         /\ Place(Q, n) = Cardinality(Q)
         /\ \A i \in P : Place(Q, i) = Place(P, i)
<1>1. IsFiniteSet(P)
  OBVIOUS
<1>2. n \notin P /\ \A j \in P : j \in Nat /\ j > n
  OBVIOUS
<1>3. Cardinality(P) \in Nat /\ Cardinality(Q) = Cardinality(P) + 1
  BY <1>1, <1>2, FS_AddElement, FS_CardinalityType
<1>4. Place(Q, n) = Cardinality(Q)
  <2>1. \A j \in Q : j >= n
    BY <1>2
  <2>2. {j \in Q : j >= n} = Q
    BY <2>1
  <2>. QED BY <2>2 DEF Place
<1>5. ASSUME NEW i \in P PROVE Place(Q, i) = Place(P, i)
  <2>1. {j \in Q : j >= i} = {j \in P : j >= i}
    BY <1>2
  <2>. QED BY <2>1 DEF Place
<1>. QED BY <1>3, <1>4, <1>5

\* What the middleware reports: of a frame that knows the status.
LEMMA Reporting ==
  ASSUME NEW f, ContextOK(f.ctx), NEW sent \in Nat, StatusOK(f, sent)
  PROVE  ReportOf(ExceptionEvent(f.ctx, PanicStatus(f)), f, sent)
<1>. DEFINE event == ExceptionEvent(f.ctx, PanicStatus(f))
            status == PanicStatus(f)
<1>1. /\ event.status = status
      /\ event.distinct = IF f.ctx.distinct = NoId THEN Generated ELSE f.ctx.distinct
  BY DEF ExceptionEvent, ResolveCaptureContext
<1>2. f.ctx.distinct = UserOf(f.ctx.layers)
  BY DEF ContextOK
<1>. HIDE DEF event
<1>3. status >= 400 /\ (f.clean /\ sent >= 400 => status = sent)
  BY DEF PanicStatus, StatusOK
<1>. HIDE DEF status
<1>. QED BY <1>1, <1>2, <1>3 DEF ReportOf, event, status

\* The middleware that is passed reports, if it captures.
LEMMA UnwindKeeps ==
  ASSUME StackInv, UnwindingInv, Unwind PROVE UnwindingInv'
<1>. PICK n : n = Len(frames)
  OBVIOUS
<1>. PICK old : old = Passed(atPanic, n)
  OBVIOUS
<1>. PICK new : new = Passed(atPanic, n - 1)
  OBVIOUS
<1>1. /\ frames # <<>> /\ frames' = Front(frames) /\ unwinding \in {"panic", "exit"}
      /\ unwinding' = unwinding /\ atPanic' = atPanic /\ sentStatus' = sentStatus
  BY DEF Unwind, Pop, UnwindingInv
<1>2. /\ n \in Nat \ {0} /\ DOMAIN frames = 1..n /\ DOMAIN frames' = 1..n - 1 /\ Last(frames) = frames[n]
      /\ Len(frames') = n - 1
      /\ \A i \in 1..n - 1 : frames'[i] = frames[i]
  <2>1. IsSeq(frames') /\ n \in Nat \ {0} /\ DOMAIN frames = 1..n /\ DOMAIN frames' = 1..n - 1
        /\ Last(frames) = frames[n] /\ \A i \in 1..n - 1 : frames'[i] = frames[i]
    BY <1>1, Fronted DEF StackInv
  <2>2. Len(frames') \in Nat /\ DOMAIN frames' = 1..Len(frames')
    BY <2>1, OwnRange DEF IsSeq
  <2>3. n - 1 \in Nat
    BY <2>1
  <2>4. Len(frames') = n - 1
    BY <2>1, <2>2, <2>3
  <2>. QED BY <2>1, <2>4
<1>3. /\ IsSeq(atPanic) /\ n <= Len(atPanic) /\ Len(atPanic) \in Nat
      /\ \A i \in 1..n : atPanic[i] = frames[i]
  <2>1. IsSeq(atPanic) /\ n <= Len(atPanic) /\ \A i \in 1..n : atPanic[i] = frames[i]
    BY <1>1, <1>2 DEF UnwindingInv
  <2>2. Len(atPanic) \in Nat
    BY <2>1, OwnRange DEF IsSeq
  <2>. QED BY <2>1, <2>2
<1>4. atPanic[n] = frames[n] /\ n \in DOMAIN frames
  BY <1>2, <1>3
<1>5. old \subseteq n + 1..Len(atPanic) /\ new = IF frames[n].capture THEN old \cup {n} ELSE old
  BY <1>2, <1>3, <1>4 DEF Passed
<1>6. Passed(atPanic', Len(frames')) = new
  BY <1>1, <1>2
<1>7. ContextOK(frames[n].ctx) /\ StatusOK(frames[n], sentStatus) /\ sentStatus \in Nat
  BY <1>4 DEF StackInv, UnwindingInv
<1>8. /\ \A i \in DOMAIN frames' : StatusOK(frames'[i], sentStatus') /\ atPanic'[i] = frames'[i]
      /\ Len(frames') <= Len(atPanic')
  <2>1. \A i \in 1..n - 1 : i \in 1..n
    BY <1>2
  <2>3. \A i \in DOMAIN frames' : StatusOK(frames[i], sentStatus) /\ frames'[i] = frames[i] /\ atPanic[i] = frames[i]
    BY <1>2, <1>3, <2>1 DEF UnwindingInv
  <2>4. n - 1 <= Len(atPanic)
    BY <1>2, <1>3
  <2>. QED BY <1>1, <1>2, <2>3, <2>4
<1>9. ASSUME IsSeq(reports'), unwinding # "panic" => reports' = <<>>, unwinding = "panic" => Told(reports', new, atPanic', sentStatus')
      PROVE  UnwindingInv'
  <2>1. sentStatus' \in Nat /\ unwinding' \in {"nothing", "panic", "exit"}
    BY <1>1, <1>7
  <2>2. IsSeq(atPanic')
    BY <1>1, <1>3
  <2>3. unwinding' = "panic" => Told(reports', Passed(atPanic', Len(frames')), atPanic', sentStatus')
    BY <1>1, <1>6, <1>9
  <2>. QED BY <1>1, <1>8, <1>9, <2>1, <2>2, <2>3 DEF UnwindingInv
<1>10. CASE ~(frames[n].capture /\ unwinding # "exit")
  <2>1. reports' = reports
    BY <1>2, <1>10 DEF Unwind
  <2>2. unwinding = "panic" => Told(reports', new, atPanic', sentStatus')
    <3>. SUFFICES ASSUME unwinding = "panic" PROVE Told(reports', new, atPanic', sentStatus')
      OBVIOUS
    <3>1. new = old /\ Told(reports, old, atPanic, sentStatus)
      BY <1>5, <1>10 DEF UnwindingInv
    <3>. QED BY <1>1, <2>1, <3>1
  <2>. QED BY <1>9, <2>1, <2>2 DEF UnwindingInv
<1>11. CASE frames[n].capture /\ unwinding # "exit"
  <2>. PICK taken : reports' = Append(reports, [taken |-> taken, event |->
                      ExceptionEvent(frames[n].ctx, PanicStatus(frames[n]))])
    BY <1>2, <1>11 DEF Unwind
  <2>. PICK event : event = ExceptionEvent(frames[n].ctx, PanicStatus(frames[n]))
    OBVIOUS
  <2>. PICK report : report = [taken |-> taken, event |-> event]
    OBVIOUS
  <2>1. reports' = Append(reports, report) /\ report.event = event
    OBVIOUS
  <2>2. ReportOf(event, atPanic[n], sentStatus)
    BY <1>4, <1>7, Reporting
  <2>3. unwinding = "panic" /\ Told(reports, old, atPanic, sentStatus) /\ IsSeq(reports)
    BY <1>1, <1>11 DEF UnwindingInv
  <2>4. /\ IsSeq(reports') /\ Len(reports) \in Nat /\ Len(reports') = Len(reports) + 1
        /\ \A k \in 1..Len(reports) : reports'[k] = reports[k]
        /\ reports'[Len(reports) + 1] = report
    BY <2>1, <2>3, Appended
  <2>5. new = old \cup {n}
    BY <1>5, <1>11
  <2>6. /\ Cardinality(old) = Len(reports) /\ Cardinality(new) = Len(reports) + 1
        /\ Place(new, n) = Len(reports) + 1
        /\ \A i \in old : Place(new, i) = Place(old, i) /\ Place(old, i) \in 1..Len(reports)
    <3>1. /\ Cardinality(new) = Cardinality(old) + 1 /\ Place(new, n) = Cardinality(new)
          /\ \A i \in old : Place(new, i) = Place(old, i) /\ Place(old, i) \in 1..Cardinality(old)
      <4>. PICK m : m = Len(atPanic)
        OBVIOUS
      <4>1. n \in Nat /\ m \in Nat /\ old \subseteq n + 1..m
        BY <1>2, <1>3, <1>5
      <4>2. \A j \in old : j \in Nat /\ j > n
        BY <4>1
      <4>3. IsFiniteSet(old)
        <5>1. n + 1 \in Int /\ m \in Int
          BY <4>1
        <5>. QED BY <4>1, <5>1, FS_Interval, FS_Subset
      <4>4. /\ Cardinality(new) = Cardinality(old) + 1 /\ Place(new, n) = Cardinality(new)
            /\ \A i \in old : Place(new, i) = Place(old, i)
        BY <2>5, <4>1, <4>2, <4>3, NextPlace
      <4>5. ASSUME NEW i \in old PROVE Place(old, i) \in 1..Cardinality(old)
        BY <4>2, <4>3, PlaceInList
      <4>. QED BY <4>4, <4>5
    <3>. QED BY <2>3, <3>1 DEF Told
  <2>7. \A i \in new : ReportOf(reports'[Place(new, i)].event, atPanic[i], sentStatus)
    <3>1. ASSUME NEW i \in old PROVE ReportOf(reports'[Place(new, i)].event, atPanic[i], sentStatus)
      <4>1. ReportOf(reports[Place(old, i)].event, atPanic[i], sentStatus)
        BY <2>3 DEF Told
      <4>2. reports'[Place(new, i)] = reports[Place(old, i)]
        BY <2>4, <2>6
      <4>. QED BY <4>1, <4>2
    <3>2. reports'[Place(new, n)].event = event
      BY <2>1, <2>4, <2>6
    <3>. QED BY <2>2, <2>5, <3>1, <3>2
  <2>8. Told(reports', new, atPanic', sentStatus')
    BY <1>1, <2>4, <2>6, <2>7 DEF Told
  <2>. QED BY <1>9, <2>3, <2>4, <2>8
<1>. QED BY <1>10, <1>11

\* What a frame knows, after a status was written.
LEMMA Writing ==
  ASSUME NEW f, IsFrame(f), NEW sent \in Nat, StatusOK(f, sent), NEW code \in Codes
  PROVE  StatusOK(IF f.wrote THEN f ELSE [f EXCEPT !.status = code, !.wrote = TRUE],
                  IF sent = 0 THEN code ELSE sent)
<1>. DEFINE now == IF sent = 0 THEN code ELSE sent
<1>1. code \in Nat /\ code # 0
  BY CodesAssumption
<1>2. CASE f.wrote
  BY <1>1, <1>2 DEF StatusOK
<1>3. CASE ~f.wrote
  <2>. DEFINE early == [f EXCEPT !.status = code]
              yes == TRUE
              g == [early EXCEPT !.wrote = yes]
  <2>1. /\ IsFrame(early) /\ early.clean = f.clean /\ early.status = code
    BY DEF IsFrame
  <2>. HIDE DEF early
  <2>2. g.clean = f.clean /\ g.status = code /\ g.wrote = yes
    <3>. HIDE DEF yes
    <3>. QED BY <2>1 DEF IsFrame
  <2>3. [f EXCEPT !.status = code, !.wrote = TRUE] = g
    BY DEF early
  <2>. HIDE DEF g
  <2>4. g.wrote
    BY <2>2
  <2>5. StatusOK(g, now)
    BY <1>1, <1>3, <2>2, <2>4 DEF StatusOK
  <2>. QED BY <1>3, <2>3, <2>5
<1>. QED BY <1>2, <1>3

\* The frames of Attach and Middleware know of no status.
LEMMA ScopeKnows ==
  ASSUME NEW ctx, sentStatus \in Nat
  PROVE  StatusOK(Scope(ctx), sentStatus)
<1>. DEFINE no == FALSE
            clean == sentStatus = 0
            f == [ctx |-> ctx, capture |-> no, status |-> 200, wrote |-> no, clean |-> clean, bridge |-> 0]
<1>1. Scope(ctx) = f
  BY DEF Scope
<1>2. f.status = 200 /\ f.wrote = no /\ f.clean = clean
  <2>. HIDE DEF no, clean
  <2>. QED OBVIOUS
<1>. HIDE DEF f
<1>3. ~f.wrote
  BY <1>2
<1>4. f.clean => sentStatus = 0
  BY <1>2
<1>. HIDE DEF no, clean
<1>5. StatusOK(f, sentStatus)
  BY <1>2, <1>3, <1>4 DEF StatusOK
<1>. QED BY <1>1, <1>5

LEMMA MiddlewareKnows ==
  ASSUME sentStatus \in Nat, NEW ctx, NEW capture, NEW bridge, Middleware(ctx, capture, bridge)
  PROVE  \E f : frames' = Append(frames, f) /\ StatusOK(f, sentStatus)
<1>. DEFINE inner == [ctx EXCEPT !.bridge = IF bridge = 0 THEN @ ELSE bridge]
            scope == Scope(inner)
            capturing == [scope EXCEPT !.capture = capture]
            f == [capturing EXCEPT !.bridge = bridge]
<1>1. frames' = Append(frames, f)
  BY DEF Middleware
<1>. HIDE DEF inner
<1>2. StatusOK(scope, sentStatus)
  BY ScopeKnows
<1>3. IsFrame(scope)
  BY DEF Scope, IsFrame
<1>. HIDE DEF scope
<1>4. IsFrame(capturing) /\ capturing.status = scope.status /\ capturing.wrote = scope.wrote /\ capturing.clean = scope.clean
  BY <1>3 DEF IsFrame
<1>. HIDE DEF capturing
<1>5. f.status = scope.status /\ f.wrote = scope.wrote /\ f.clean = scope.clean
  BY <1>4 DEF IsFrame
<1>. HIDE DEF f
<1>6. StatusOK(f, sentStatus)
  BY <1>2, <1>5 DEF StatusOK
<1>. QED BY <1>1, <1>6

\* Nothing unwinds: there is nothing to report.
LEMMA RunningKeeps ==
  ASSUME UnwindingInv, unwinding = "nothing", UNCHANGED panicVars, sentStatus' \in Nat,
         \A i \in DOMAIN frames' : StatusOK(frames'[i], sentStatus')
  PROVE  UnwindingInv'
<1>1. unwinding' = "nothing" /\ reports' = reports
  BY DEF panicVars
<1>. QED BY <1>1 DEF UnwindingInv

LEMMA CallKeeps ==
  ASSUME StackInv, UnwindingInv, unwinding = "nothing", UNCHANGED <<panicVars, sentStatus>>,
         NEW f, StatusOK(f, sentStatus), frames' = Append(frames, f)
  PROVE  UnwindingInv'
<1>1. /\ Len(frames) \in Nat /\ DOMAIN frames = 1..Len(frames) /\ DOMAIN frames' = 1..Len(frames) + 1
      /\ (\A i \in 1..Len(frames) : frames'[i] = frames[i]) /\ frames'[Len(frames) + 1] = f
  BY Appended DEF StackInv
<1>2. \A i \in DOMAIN frames' : i \in DOMAIN frames \/ i = Len(frames) + 1
  BY <1>1
<1>3. \A i \in DOMAIN frames' : StatusOK(frames'[i], sentStatus)
  BY <1>1, <1>2 DEF UnwindingInv
<1>4. sentStatus' = sentStatus /\ sentStatus \in Nat
  BY DEF UnwindingInv
<1>. QED BY <1>3, <1>4, RunningKeeps

LEMMA ReturnKeeps ==
  ASSUME StackInv, UnwindingInv, FrameReturns PROVE UnwindingInv'
<1>1. frames # <<>> /\ frames' = Front(frames) /\ unwinding = "nothing" /\ UNCHANGED <<panicVars, sentStatus>>
  BY DEF FrameReturns, Pop, Running
<1>2. /\ Len(frames) \in Nat /\ DOMAIN frames = 1..Len(frames) /\ DOMAIN frames' = 1..Len(frames) - 1
      /\ \A i \in 1..Len(frames) - 1 : frames'[i] = frames[i]
  BY <1>1, Fronted DEF StackInv
<1>3. \A i \in DOMAIN frames' : i \in DOMAIN frames /\ frames'[i] = frames[i]
  BY <1>2
<1>4. sentStatus' = sentStatus /\ sentStatus \in Nat
  BY <1>1 DEF UnwindingInv
<1>5. \A i \in DOMAIN frames' : StatusOK(frames'[i], sentStatus')
  BY <1>3, <1>4 DEF UnwindingInv
<1>. QED BY <1>1, <1>4, <1>5, RunningKeeps

LEMMA WriteKeeps ==
  ASSUME StackInv, UnwindingInv, NEW code \in Codes, WriteHeader(code) PROVE UnwindingInv'
<1>1. /\ frames' = [i \in DOMAIN frames |->
                      IF frames[i].wrote THEN frames[i] ELSE [frames[i] EXCEPT !.status = code, !.wrote = TRUE]]
      /\ sentStatus' = IF sentStatus = 0 THEN code ELSE sentStatus
      /\ unwinding = "nothing" /\ UNCHANGED panicVars
  BY DEF WriteHeader, Running
<1>2. sentStatus \in Nat /\ code \in Nat
  BY CodesAssumption DEF UnwindingInv
<1>3. DOMAIN frames' = DOMAIN frames
  BY <1>1
<1>4. ASSUME NEW i \in DOMAIN frames' PROVE StatusOK(frames'[i], sentStatus')
  <2>. DEFINE f == frames[i]
  <2>1. IsFrame(f) /\ StatusOK(f, sentStatus)
    BY <1>3 DEF StackInv, UnwindingInv
  <2>2. frames'[i] = IF f.wrote THEN f ELSE [f EXCEPT !.status = code, !.wrote = TRUE]
    BY <1>1, <1>3
  <2>. HIDE DEF f
  <2>3. StatusOK(IF f.wrote THEN f ELSE [f EXCEPT !.status = code, !.wrote = TRUE],
                 IF sentStatus = 0 THEN code ELSE sentStatus)
    BY <1>2, <2>1, Writing
  <2>. QED BY ONLY <1>1, <2>2, <2>3
<1>. QED BY <1>1, <1>2, <1>4, RunningKeeps

LEMMA ForwardKeeps ==
  ASSUME UnwindingInv, Forwarded PROVE UnwindingInv'
<1>1. /\ frames' = frames /\ sentStatus = 0 /\ sentStatus' = 200 /\ unwinding = "nothing" /\ UNCHANGED panicVars
  BY DEF Forwarded, Running, stackVars
<1>2. \A i \in DOMAIN frames : StatusOK(frames[i], 200)
  BY <1>1 DEF UnwindingInv, StatusOK
<1>3. \A i \in DOMAIN frames' : StatusOK(frames'[i], sentStatus')
  BY <1>1, <1>2
<1>. QED BY <1>1, <1>3, RunningKeeps

\* A panic begins: it passed nobody yet.
LEMMA PanicKeeps ==
  ASSUME StackInv, UnwindingInv, NEW how \in {"panic", "exit"}, Unwinds(how) PROVE UnwindingInv'
<1>1. /\ unwinding = "nothing" /\ unwinding' = how /\ atPanic' = frames /\ frames' = frames
      /\ reports' = reports /\ sentStatus' = sentStatus
  BY DEF Unwinds, Running, stackVars
<1>2. reports = <<>> /\ IsSeq(reports) /\ sentStatus \in Nat /\ \A i \in DOMAIN frames : StatusOK(frames[i], sentStatus)
  BY <1>1 DEF UnwindingInv
<1>3. IsSeq(frames) /\ Len(frames) \in Nat
  BY OwnRange DEF StackInv, IsSeq
<1>4. Told(reports, Passed(frames, Len(frames)), frames, sentStatus)
  <2>1. Passed(frames, Len(frames)) = {}
    BY <1>3 DEF Passed
  <2>2. Cardinality({}) = 0 /\ Len(<<>>) = 0
    BY FS_EmptySet, EmptySeq
  <2>. QED BY <1>2, <2>1, <2>2 DEF Told
<1>. QED BY <1>1, <1>2, <1>3, <1>4 DEF UnwindingInv

\* A handler recovers: what was reported is not of the next panic.
LEMMA RecoverKeeps ==
  ASSUME UnwindingInv, Recovers PROVE UnwindingInv'
<1>1. unwinding' = "nothing" /\ reports' = <<>> /\ frames' = frames /\ sentStatus' = sentStatus
  BY DEF Recovers, stackVars
<1>2. IsSeq(<<>>)
  BY EmptySeq DEF IsSeq
<1>. QED BY <1>1, <1>2 DEF UnwindingInv

LEMMA UnwindingRests ==
  ASSUME UnwindingInv, UNCHANGED <<frames, panicVars, sentStatus>> PROVE UnwindingInv'
BY DEF UnwindingInv, panicVars, Told, ReportOf

PanicsInv == StackInv /\ UnwindingInv

LEMMA PanicsInit == ContextInit => PanicsInv
<1>. SUFFICES ASSUME ContextInit PROVE PanicsInv
  OBVIOUS
<1>1. /\ frames = <<>> /\ DOMAIN frames = {} /\ sentStatus = 0 /\ unwinding = "nothing"
      /\ reports = <<>> /\ IsSeq(<<>>)
  BY EmptySeq DEF ContextInit, IsSeq
<1>. QED BY <1>1, StackInit DEF PanicsInv, UnwindingInv

LEMMA PanicsNext == PanicsInv /\ [RequestNext]_contextVars => PanicsInv'
<1>. SUFFICES ASSUME StackInv, UnwindingInv, [RequestNext]_contextVars PROVE UnwindingInv'
  BY StackKeeps DEF PanicsInv
<1>0. sentStatus \in Nat
  BY DEF UnwindingInv
<1>1. CASE FrameReturns
  BY <1>1, ReturnKeeps
<1>2. CASE Unwinds("panic") \/ Unwinds("exit")
  BY <1>2, PanicKeeps
<1>3. CASE Unwind
  BY <1>3, UnwindKeeps
<1>4. CASE Recovers
  BY <1>4, RecoverKeeps
<1>5. CASE Forwarded
  BY <1>5, ForwardKeeps
<1>6. CASE \E given \in Layers, fresh \in BOOLEAN : Attach(WithRequestContext(Ctx, given, fresh))
  <2>. PICK ctx : Attach(ctx)
    BY <1>6
  <2>1. frames' = Append(frames, Scope(ctx)) /\ unwinding = "nothing" /\ UNCHANGED <<panicVars, sentStatus>>
    BY DEF Attach, FreshFrame, Running
  <2>. QED BY <1>0, <2>1, ScopeKnows, CallKeeps
<1>7. CASE \E tracing, capture \in BOOLEAN :
             Middleware(WithRequestContext(Ctx, ExtractRequestContext(tracing), TRUE), capture, 0)
  <2>. PICK ctx, capture : Middleware(ctx, capture, 0)
    BY <1>7
  <2>1. unwinding = "nothing" /\ UNCHANGED <<panicVars, sentStatus>>
    BY DEF Middleware, FreshFrame, Running
  <2>. PICK f : frames' = Append(frames, f) /\ StatusOK(f, sentStatus)
    BY <1>0, MiddlewareKnows
  <2>. QED BY <2>1, CallKeeps
<1>8. CASE \E code \in Codes : WriteHeader(code)
  BY <1>8, WriteKeeps
<1>9. CASE UNCHANGED contextVars \/ \E distinct \in Users \cup {NoId}, given \in Given : EnqueueWithContext(distinct, given)
  <2>1. UNCHANGED <<frames, panicVars, sentStatus>>
    BY <1>9 DEF EnqueueWithContext, contextVars, stackVars
  <2>. QED BY <2>1, UnwindingRests
<1>. QED BY <1>1, <1>2, <1>3, <1>4, <1>5, <1>6, <1>7, <1>8, <1>9 DEF RequestNext, StackNext

\* A panic of a handler is reported once by every middleware that captures and that it
\* has passed, innermost first, each for its own request context and with the status
\* that was sent, whatever handlers wrote and recovered before; Goexit is not reported.
THEOREM PanicsAreReportedOnce == RequestSpec => []PanicsReportedOnce
<1>1. PanicsInv => PanicsReportedOnce
  BY UnwindingTells DEF PanicsInv
<1>. QED BY <1>1, PanicsInit, PanicsNext, PTL DEF RequestSpec

--------------------------------------------------------------------------
(* Spans: the contexts they are exported with, and the ids they get while     *)
(* they are live.                                                             *)

IsSpan(r) ==
  /\ r = [at |-> r.at, ids |-> r.ids, ctx |-> r.ctx, handled |-> r.handled]
  /\ r.at \in {"none", "live", "ended"} /\ ContextOK(r.ctx)
  /\ r.ids # NoIds => r.handled

\* A span that the code of a handler started, and that may have ended.
Handled(all, s) == s \in Spans /\ all[s].at # "none" /\ (all[s].at = "live" => all[s].handled)

SpansOK == DOMAIN spans = Spans /\ \A s \in Spans : IsSpan(spans[s])

FramesOK == \A i \in DOMAIN frames : frames[i].ctx.span = NoId \/ Handled(spans, frames[i].ctx.span)

\* The store has the context of every live span that has one, until it is closed.
StoreOK ==
  /\ \A s \in DOMAIN store : s \in Spans /\ spans[s].at = "live" /\ store[s] = spans[s].ctx
  /\ storeClosed \in BOOLEAN /\ (storeClosed => DOMAIN store = {})
  /\ \A s \in Spans : spans[s].at = "live" /\ ~storeClosed /\ s \notin DOMAIN store => ~Captured(spans[s].ctx)

\* Attributes are those of a span and those its context means.
Carries(attributes, own, ctx) ==
  \A k : ValueOf(attributes, k) = IF k \in DOMAIN own THEN own[k]
                                  ELSE IF k = DistinctIdAttribute /\ NamesUser(own) THEN NoId
                                  ELSE Meant(ctx.layers, k)

Explained(e) ==
  e.late = FALSE => ContextOK(e.of.ctx) /\ Carries(e.attributes, e.own, e.of.ctx)

SpansInv == StackInv /\ ContextOK(goroutine) /\ SpansOK /\ FramesOK /\ StoreOK /\ Explained(exported)

LEMMA UnbornIsSpan == IsSpan(Unborn) /\ Unborn.at = "none" /\ IsSpan(Ended) /\ Ended.at = "ended"
<1>1. /\ Unborn.at = "none" /\ Unborn.ids = NoIds /\ Unborn.ctx = NoContext
      /\ Unborn = [at |-> Unborn.at, ids |-> Unborn.ids, ctx |-> Unborn.ctx, handled |-> Unborn.handled]
  BY DEF Unborn
<1>2. IsSpan(Unborn)
  BY <1>1, NoneAttached DEF IsSpan
<1>3. /\ Ended.at = "ended" /\ Ended.ids = NoIds /\ Ended.ctx = NoContext
      /\ Ended = [at |-> Ended.at, ids |-> Ended.ids, ctx |-> Ended.ctx, handled |-> Ended.handled]
  BY <1>1 DEF Ended
<1>4. IsSpan(Ended)
  BY <1>3, NoneAttached DEF IsSpan
<1>. QED BY <1>1, <1>2, <1>3, <1>4

LEMMA NothingExplained == Explained(NotExported)
<1>1. NotExported.late = TRUE
  BY DEF NotExported
<1>. QED BY <1>1 DEF Explained

LEMMA SpansStart == ContextInit /\ SpansInit => SpansInv
<1>. SUFFICES ASSUME ContextInit, SpansInit PROVE SpansInv
  OBVIOUS
<1>1. StackInv /\ ContextOK(goroutine) /\ Explained(exported)
  BY StackInit, NoneAttached, NothingExplained DEF SpansInit
<1>2. spans = [s \in Spans |-> Unborn] /\ DOMAIN store = {} /\ storeClosed = FALSE
  BY DEF SpansInit
<1>3. SpansOK /\ StoreOK
  BY <1>2, UnbornIsSpan DEF SpansOK, StoreOK
<1>4. DOMAIN frames = {}
  BY EmptySeq DEF ContextInit
<1>. QED BY <1>1, <1>3, <1>4 DEF SpansInv, FramesOK

--------------------------------------------------------------------------
(* The frames and their spans.                                             *)

LEMMA CtxSpan == StackInv /\ FramesOK => Ctx.span = NoId \/ Handled(spans, Ctx.span)
BY CtxOK DEF FramesOK

\* Spans that go on keep the frames right, and so does a frame with the span of one of them.
LEMMA FramesGo ==
  ASSUME FramesOK, \A s : Handled(spans, s) => Handled(spans', s),
         \A i \in DOMAIN frames' : \/ i \in DOMAIN frames /\ frames'[i].ctx.span = frames[i].ctx.span
                                   \/ frames'[i].ctx.span = NoId \/ Handled(spans', frames'[i].ctx.span)
  PROVE  FramesOK'
<1>. SUFFICES ASSUME NEW i \in DOMAIN frames'
              PROVE  frames'[i].ctx.span = NoId \/ Handled(spans', frames'[i].ctx.span)
  BY DEF FramesOK
<1>1. CASE i \in DOMAIN frames /\ frames'[i].ctx.span = frames[i].ctx.span
  <2>1. frames[i].ctx.span = NoId \/ Handled(spans, frames[i].ctx.span)
    BY <1>1 DEF FramesOK
  <2>. DEFINE s == frames[i].ctx.span
  <2>2. Handled(spans, s) => Handled(spans', s)
    OBVIOUS
  <2>. QED BY <1>1, <2>1, <2>2
<1>. QED BY <1>1

LEMMA PoppedSpans ==
  ASSUME StackInv, frames # <<>>, Pop
  PROVE  \A i \in DOMAIN frames' : i \in DOMAIN frames /\ frames'[i].ctx.span = frames[i].ctx.span
<1>1. /\ Len(frames) \in Nat \ {0} /\ DOMAIN frames = 1..Len(frames) /\ DOMAIN frames' = 1..Len(frames) - 1
      /\ \A i \in 1..Len(frames) - 1 : frames'[i] = frames[i]
  BY Fronted DEF StackInv, Pop
<1>2. \A i \in 1..Len(frames) - 1 : i \in 1..Len(frames)
  BY <1>1
<1>. QED BY <1>1, <1>2

LEMMA PushedSpans ==
  ASSUME StackInv, NEW f, frames' = Append(frames, f)
  PROVE  \A i \in DOMAIN frames' :
           \/ i \in DOMAIN frames /\ frames'[i].ctx.span = frames[i].ctx.span
           \/ frames'[i].ctx.span = f.ctx.span
<1>1. /\ Len(frames) \in Nat /\ DOMAIN frames = 1..Len(frames) /\ DOMAIN frames' = 1..Len(frames) + 1
      /\ (\A i \in 1..Len(frames) : frames'[i] = frames[i]) /\ frames'[Len(frames) + 1] = f
  BY Appended DEF StackInv
<1>2. \A i \in 1..Len(frames) + 1 : i \in 1..Len(frames) \/ i = Len(frames) + 1
  BY <1>1
<1>. QED BY <1>1, <1>2

--------------------------------------------------------------------------
(* The steps of spans.                                                     *)

\* A span starts: it gets ids only of a handler that has not returned.
LEMMA StartedSpan ==
  ASSUME StackInv, SpansOK, NEW s \in Spans, NEW ctx, ContextOK(ctx), OnStart(s, ctx)
  PROVE  \E r : /\ spans' = [spans EXCEPT ![s] = r] /\ IsSpan(r) /\ r.at = "live" /\ r.ctx = ctx
                /\ r.handled <=> ctx.bridge = 0 \/ \E i \in DOMAIN frames : frames[i].bridge = ctx.bridge
<1>. DEFINE h == ctx.bridge = 0 \/ \E i \in DOMAIN frames : frames[i].bridge = ctx.bridge
            ids == IF bridgeShut THEN NoIds ELSE ContextIds(ctx, NoIds)
            r == [at |-> "live", ctx |-> ctx, ids |-> ids, handled |-> h]
<1>1. spans' = [spans EXCEPT ![s] = r]
  BY DEF OnStart
<1>2. ids # NoIds => h
  BY DEF StackInv, ContextIds
<1>3. h \in BOOLEAN
  OBVIOUS
<1>. HIDE DEF h, ids
<1>4. r.at = "live" /\ r.ctx = ctx /\ r.ids = ids /\ r.handled = h
  OBVIOUS
<1>5. r = [at |-> r.at, ids |-> r.ids, ctx |-> r.ctx, handled |-> r.handled]
  OBVIOUS
<1>. HIDE DEF r
<1>6. IsSpan(r)
  BY <1>2, <1>4, <1>5 DEF IsSpan
<1>7. r.handled <=> h
  BY <1>3, <1>4
<1>. QED BY <1>1, <1>4, <1>6, <1>7 DEF h

LEMMA Starting ==
  ASSUME StackInv, SpansOK, StoreOK, NEW s \in Spans, NEW ctx, ContextOK(ctx), OnStart(s, ctx)
  PROVE  /\ SpansOK' /\ StoreOK' /\ \A t : Handled(spans, t) => Handled(spans', t)
         /\ ctx.bridge = 0 \/ (\E i \in DOMAIN frames : frames[i].bridge = ctx.bridge) => Handled(spans', s)
<1>. PICK r : /\ spans' = [spans EXCEPT ![s] = r] /\ IsSpan(r) /\ r.at = "live" /\ r.ctx = ctx
              /\ r.handled <=> ctx.bridge = 0 \/ \E i \in DOMAIN frames : frames[i].bridge = ctx.bridge
  BY StartedSpan
<1>1. /\ DOMAIN spans = Spans /\ DOMAIN spans' = Spans /\ spans[s].at = "none" /\ spans'[s] = r
      /\ \A t \in Spans \ {s} : spans'[t] = spans[t]
  BY DEF SpansOK, OnStart
<1>2. SpansOK'
  BY <1>1 DEF SpansOK
<1>3. /\ storeClosed' = storeClosed
      /\ store' = IF Captured(ctx) /\ ~storeClosed THEN Over(Only(s, ctx), store) ELSE store
  BY DEF OnStart
<1>4. s \notin DOMAIN store
  BY <1>1 DEF StoreOK
<1>5. StoreOK'
  <2>1. CASE Captured(ctx) /\ ~storeClosed
    <3>. DEFINE more == Over(Only(s, ctx), store)
    <3>1. DOMAIN more = {s} \cup DOMAIN store /\ more[s] = ctx /\ \A t \in DOMAIN store \ {s} : more[t] = store[t]
      BY DEF Over, Only
    <3>2. store' = more
      BY <1>3, <2>1
    <3>. HIDE DEF more
    <3>. QED BY <1>1, <1>3, <1>4, <2>1, <3>1, <3>2 DEF StoreOK
  <2>2. CASE ~(Captured(ctx) /\ ~storeClosed)
    BY <1>1, <1>3, <1>4, <2>2 DEF StoreOK
  <2>. QED BY <2>1, <2>2
<1>6. \A t : Handled(spans, t) => Handled(spans', t)
  BY <1>1 DEF Handled
<1>7. ctx.bridge = 0 \/ (\E i \in DOMAIN frames : frames[i].bridge = ctx.bridge) => Handled(spans', s)
  BY <1>1 DEF Handled
<1>. QED BY <1>2, <1>5, <1>6, <1>7

\* Of a context, the last property of a name, which is found in it, or the id in it.
LEMMA Meaning ==
  ASSUME NEW ctx, ContextOK(ctx), NEW k
  PROVE  Meant(ctx.layers, k) =
           IF k \in DOMAIN ctx.properties THEN ctx.properties[k]
           ELSE IF k = DistinctIdAttribute THEN ctx.distinct
           ELSE IF k = SessionId THEN ctx.session ELSE NoId
<1>1. /\ k \in DOMAIN ctx.properties <=> Giving(ctx.layers, k) # {}
      /\ Giving(ctx.layers, k) # {} =>
           ctx.properties[k] = Sanitize(LastGiven(ctx.layers, Giving(ctx.layers, k)).properties[k])
      /\ ctx.distinct = UserOf(ctx.layers) /\ ctx.session = SessionOf(ctx.layers)
  BY DEF ContextOK
<1>2. DistinctIdAttribute # SessionId
  BY DEF DistinctIdAttribute, SessionId
<1>. QED BY <1>1, <1>2 DEF Meant

\* requestContextAttributes gives what the context means.
LEMMA Exporting ==
  ASSUME NEW ctx, ContextOK(ctx), NEW k
  PROVE  ValueOf(RequestContextAttributes(ctx), k) = Meant(ctx.layers, k)
<1>. DEFINE ids == Over(Only(DistinctIdAttribute, ctx.distinct), Only(SessionId, ctx.session))
            values == Over(ctx.properties, ids)
            kept == {x \in DOMAIN values : values[x] # NoId}
<1>1. DistinctIdAttribute # SessionId
  BY DEF DistinctIdAttribute, SessionId
<1>2. /\ DOMAIN ids = {DistinctIdAttribute, SessionId}
      /\ ids[DistinctIdAttribute] = ctx.distinct /\ ids[SessionId] = ctx.session
  BY <1>1 DEF Over, Only
<1>. HIDE DEF ids
<1>3. /\ DOMAIN values = DOMAIN ctx.properties \cup DOMAIN ids
      /\ \A x \in DOMAIN ctx.properties : values[x] = ctx.properties[x]
      /\ \A x \in DOMAIN ids \ DOMAIN ctx.properties : values[x] = ids[x]
  BY Overriding
<1>4. RequestContextAttributes(ctx) = Restrict(values, kept)
  BY DEF RequestContextAttributes, ids
<1>. HIDE DEF values
<1>5. /\ DOMAIN Restrict(values, kept) = kept
      /\ \A x \in kept : Restrict(values, kept)[x] = values[x]
  BY DEF Restrict
<1>6. ValueOf(RequestContextAttributes(ctx), k) = IF k \in DOMAIN values THEN values[k] ELSE NoId
  BY <1>4, <1>5 DEF ValueOf
<1>. QED BY <1>1, <1>2, <1>3, <1>6, Meaning

\* withRequestContext lets the span have the first word.
LEMMA Adding ==
  ASSUME NEW own, NEW extra, NEW k
  PROVE  ValueOf(WithContextAttributes(own, extra), k) =
           IF k \in DOMAIN own THEN own[k]
           ELSE IF k = DistinctIdAttribute /\ NamesUser(own) THEN NoId
           ELSE ValueOf(extra, k)
<1>. DEFINE kept == {x \in DOMAIN extra : x = DistinctIdAttribute => ~NamesUser(own)}
            added == Restrict(extra, kept)
<1>1. DOMAIN added = kept /\ \A x \in kept : added[x] = extra[x]
  BY DEF Restrict
<1>2. WithContextAttributes(own, extra) = Over(own, added)
  BY DEF WithContextAttributes
<1>. HIDE DEF added
<1>3. /\ DOMAIN Over(own, added) = DOMAIN own \cup DOMAIN added
      /\ \A x \in DOMAIN own : Over(own, added)[x] = own[x]
      /\ \A x \in DOMAIN added \ DOMAIN own : Over(own, added)[x] = added[x]
  BY Overriding
<1>. QED BY <1>1, <1>2, <1>3 DEF ValueOf

\* A context that was not captured means nothing.
LEMMA NothingMeant ==
  ASSUME NEW ctx, ContextOK(ctx), ~Captured(ctx), NEW k
  PROVE  Meant(ctx.layers, k) = NoId
<1>1. DOMAIN ctx.properties = {}
  BY DEF ContextOK, Captured
<1>2. ctx.distinct = NoId /\ ctx.session = NoId
  <2>1. CASE ctx.attached
    BY <2>1 DEF Captured
  <2>2. CASE ~ctx.attached
    <3>1. ctx.layers = <<>>
      BY <2>2 DEF ContextOK
    <3>2. UserOf(<<>>) = NoId /\ SessionOf(<<>>) = NoId
      BY NoneAttached DEF ContextOK, NoContext
    <3>. QED BY <3>1, <3>2 DEF ContextOK
  <2>. QED BY <2>1, <2>2
<1>. QED BY <1>1, <1>2, Meaning

\* A span ends.
LEMMA Ending ==
  ASSUME SpansOK, StoreOK, NEW s \in Spans, NEW ai, NEW own, OnEnd(s, ai, own)
  PROVE  SpansOK' /\ StoreOK' /\ Explained(exported)' /\ \A t : Handled(spans, t) => Handled(spans', t)
<1>1. /\ DOMAIN spans = Spans /\ DOMAIN spans' = Spans /\ spans[s].at = "live" /\ spans'[s] = Ended
      /\ \A t \in Spans \ {s} : spans'[t] = spans[t]
  BY DEF SpansOK, OnEnd
<1>2. SpansOK'
  BY <1>1, UnbornIsSpan DEF SpansOK
<1>3. /\ DOMAIN store' = DOMAIN store \ {s} /\ storeClosed' = storeClosed
      /\ \A t \in DOMAIN store \ {s} : store'[t] = store[t]
  BY DEF OnEnd, Restrict
<1>4. StoreOK'
  BY <1>1, <1>3, UnbornIsSpan DEF StoreOK
<1>5. \A t : Handled(spans, t) => Handled(spans', t)
  BY <1>1, UnbornIsSpan DEF Handled
<1>6. ContextOK(spans[s].ctx)
  BY DEF SpansOK, IsSpan
<1>. DEFINE ctx == spans[s].ctx
<1>7. Explained(exported')
  <2>1. CASE exported' = NotExported
    BY <2>1, NothingExplained
  <2>2. CASE exported' = [attributes |-> ExportedAttributes(s, own), own |-> own,
                          late |-> storeClosed, of |-> spans[s]]
    <3>1. /\ exported'.attributes = ExportedAttributes(s, own) /\ exported'.own = own
          /\ exported'.late = storeClosed /\ exported'.of = spans[s]
      BY <2>2
    <3>2. CASE s \in DOMAIN store
      <4>1. ExportedAttributes(s, own) = WithContextAttributes(own, RequestContextAttributes(ctx))
        BY <3>2 DEF StoreOK, ExportedAttributes
      <4>. HIDE DEF ctx
      <4>2. Carries(WithContextAttributes(own, RequestContextAttributes(ctx)), own, ctx)
        BY <1>6, Adding, Exporting DEF Carries, ctx
      <4>. QED BY <1>6, <3>1, <4>1, <4>2 DEF Explained, ctx
    <3>3. CASE s \notin DOMAIN store /\ storeClosed = FALSE
      <4>1. ExportedAttributes(s, own) = own
        BY <3>3 DEF ExportedAttributes
      <4>2. ~Captured(ctx)
        BY <1>1, <3>3 DEF StoreOK
      <4>. HIDE DEF ctx
      <4>3. \A k : Meant(ctx.layers, k) = NoId
        BY <1>6, <4>2, NothingMeant DEF ctx
      <4>4. Carries(own, own, ctx)
        BY <4>3 DEF Carries, ValueOf
      <4>. QED BY <1>6, <3>1, <4>1, <4>4 DEF Explained, ctx
    <3>4. CASE storeClosed = TRUE
      BY <3>1, <3>4 DEF Explained
    <3>. QED BY <3>2, <3>3, <3>4 DEF StoreOK
  <2>. QED BY <2>1, <2>2 DEF OnEnd
<1>. QED BY <1>2, <1>4, <1>5, <1>7

LEMMA Identified ==
  ASSUME NEW span, IsSpan(span), span.handled, NEW ids
  PROVE  \E r : /\ r = [span EXCEPT !.ids = ids] /\ IsSpan(r)
                /\ r.at = span.at /\ r.ctx = span.ctx /\ r.handled = span.handled
<1>. DEFINE r == [span EXCEPT !.ids = ids]
<1>1. span = [at |-> span.at, ids |-> span.ids, ctx |-> span.ctx, handled |-> span.handled]
  BY DEF IsSpan
<1>2. r.at = span.at /\ r.ctx = span.ctx /\ r.handled = span.handled
  BY <1>1
<1>3. r = [at |-> r.at, ids |-> r.ids, ctx |-> r.ctx, handled |-> r.handled]
  BY <1>1
<1>. HIDE DEF r
<1>4. IsSpan(r)
  BY <1>2, <1>3 DEF IsSpan
<1>. QED BY <1>2, <1>4 DEF r

\* The middleware of posthogotel gives the ids of the request to the span around it.
LEMMA Enriching ==
  ASSUME StackInv, FramesOK, SpansOK, StoreOK, NEW tracing, NEW capture, NEW bridge,
         RequestMiddleware(tracing, capture, bridge)
  PROVE  SpansOK' /\ StoreOK' /\ \A t : Handled(spans, t) => Handled(spans', t)
<1>. DEFINE ctx == WithRequestContext(Ctx, ExtractRequestContext(tracing), TRUE)
            s == ctx.span
            ids == ContextIds([ctx EXCEPT !.bridge = 0], spans[s].ids)
            r == [spans[s] EXCEPT !.ids = ids]
<1>1. /\ spans' = IF bridge # 0 /\ s # NoId /\ spans[s].at = "live" THEN [spans EXCEPT ![s] = r] ELSE spans
      /\ store' = store /\ storeClosed' = storeClosed
  BY DEF RequestMiddleware
<1>2. s = Ctx.span
  BY CtxOK, Attaching
<1>3. CASE spans' = spans
  BY <1>1, <1>3 DEF SpansOK, StoreOK
<1>4. CASE bridge # 0 /\ s # NoId /\ spans[s].at = "live"
  <2>1. s \in Spans /\ spans[s].handled
    BY <1>2, <1>4, CtxSpan DEF Handled
  <2>2. spans' = [spans EXCEPT ![s] = r]
    BY <1>1, <1>4
  <2>3. IsSpan(spans[s])
    BY <2>1 DEF SpansOK
  <2>. DEFINE old == spans[s]
  <2>9. IsSpan(old) /\ old.handled /\ r = [old EXCEPT !.ids = ids]
    BY <2>1, <2>3
  <2>. HIDE DEF s, ids, old, r
  <2>10. \E e : /\ e = [old EXCEPT !.ids = ids] /\ IsSpan(e)
               /\ e.at = old.at /\ e.ctx = old.ctx /\ e.handled = old.handled
    BY <2>9, Identified
  <2>4. r.at = spans[s].at /\ r.ctx = spans[s].ctx /\ IsSpan(r) /\ r.handled = spans[s].handled
    BY <2>9, <2>10 DEF old
  <2>5. /\ DOMAIN spans = Spans /\ DOMAIN spans' = Spans /\ spans'[s] = r
        /\ \A t \in Spans \ {s} : spans'[t] = spans[t]
    BY <2>1, <2>2 DEF SpansOK
  <2>6. SpansOK'
    BY <2>4, <2>5 DEF SpansOK
  <2>7. StoreOK'
    BY <1>1, <2>4, <2>5 DEF StoreOK
  <2>8. \A t : Handled(spans, t) => Handled(spans', t)
    BY <2>4, <2>5 DEF Handled
  <2>. QED BY <2>6, <2>7, <2>8
<1>. QED BY <1>1, <1>3, <1>4

\* Steps that leave the spans alone.
LEMMA SpansRest ==
  ASSUME StackInv, FramesOK, SpansOK, StoreOK, UNCHANGED <<spans, store, storeClosed>>,
         \A i \in DOMAIN frames' : \/ i \in DOMAIN frames /\ frames'[i].ctx.span = frames[i].ctx.span
                                   \/ frames'[i].ctx.span = Ctx.span
  PROVE  SpansOK' /\ StoreOK' /\ FramesOK'
<1>1. SpansOK' /\ StoreOK'
  BY DEF SpansOK, StoreOK
<1>2. Ctx.span = NoId \/ Handled(spans', Ctx.span)
  BY CtxSpan DEF Handled
<1>3. \A t : Handled(spans, t) => Handled(spans', t)
  BY DEF Handled
<1>4. \A i \in DOMAIN frames' : \/ i \in DOMAIN frames /\ frames'[i].ctx.span = frames[i].ctx.span
                                \/ frames'[i].ctx.span = NoId \/ Handled(spans', frames'[i].ctx.span)
  BY <1>2
<1>. QED BY <1>1, <1>3, <1>4, FramesGo

LEMMA AttachedSpans ==
  ASSUME StackInv, NEW ctx, Attach(ctx)
  PROVE  \A i \in DOMAIN frames' :
           \/ i \in DOMAIN frames /\ frames'[i].ctx.span = frames[i].ctx.span
           \/ frames'[i].ctx.span = ctx.span
<1>. DEFINE f == Scope(ctx)
<1>1. frames' = Append(frames, f) /\ f.ctx = ctx
  BY DEF Attach, Scope
<1>. HIDE DEF f
<1>. QED BY <1>1, PushedSpans

LEMMA SpansNextKeeps == SpansInv /\ [SpansNext]_<<contextVars, spanVars>> => SpansInv'
<1>. SUFFICES ASSUME SpansInv, [SpansNext]_<<contextVars, spanVars>> PROVE SpansInv'
  OBVIOUS
<1>. USE DEF SpansInv
<1>1. CASE StackNext /\ UNCHANGED <<goroutine, spans, store, storeClosed>> /\ exported' = NotExported
  <2>1. StackInv' /\ ContextOK(goroutine') /\ Explained(exported')
    BY <1>1, StackNextKeeps, NothingExplained
  <2>2. \A i \in DOMAIN frames' : i \in DOMAIN frames /\ frames'[i].ctx.span = frames[i].ctx.span
    <3>1. CASE FrameReturns \/ Unwind
      <4>1. frames # <<>> /\ Pop
        BY <3>1 DEF FrameReturns, Unwind
      <4>. QED BY <4>1, PoppedSpans
    <3>2. CASE Unwinds("panic") \/ Recovers
      BY <3>2 DEF Unwinds, Recovers, stackVars
    <3>. QED BY <1>1, <3>1, <3>2 DEF StackNext
  <2>3. SpansOK' /\ StoreOK' /\ FramesOK'
    BY <1>1, <2>2, SpansRest
  <2>. QED BY <2>1, <2>3
<1>2. CASE UNCHANGED <<frames, active, defaults, spans, store, storeClosed>> /\ ContextOK(goroutine')
             /\ exported' \in {exported, NotExported}
  <2>1. StackInv'
    BY <1>2, StackRests
  <2>2. Explained(exported')
    BY <1>2, NothingExplained
  <2>3. SpansOK' /\ StoreOK' /\ FramesOK'
    BY <1>2, SpansRest
  <2>. QED BY <1>2, <2>1, <2>2, <2>3
<1>3. CASE /\ \E given \in Inherited : Attach(WithRequestContext(Ctx, given, FALSE))
           /\ UNCHANGED <<goroutine, spans, store, storeClosed>> /\ exported' = NotExported
  <2>. PICK given \in Inherited : Attach(WithRequestContext(Ctx, given, FALSE))
    BY <1>3
  <2>. DEFINE ctx == WithRequestContext(Ctx, given, FALSE)
  <2>1. ContextOK(ctx) /\ ctx.bridge = Ctx.bridge /\ ctx.span = Ctx.span /\ Attach(ctx)
    BY CtxOK, Attaching
  <2>. HIDE DEF ctx
  <2>2. StackInv'
    BY <2>1, AttachKeeps
  <2>3. SpansOK' /\ StoreOK' /\ FramesOK'
    BY <1>3, <2>1, AttachedSpans, SpansRest
  <2>. QED BY <1>3, <2>2, <2>3, NothingExplained
<1>4. CASE /\ \E tracing \in BOOLEAN, bridge \in {0, bridged + 1} : RequestMiddleware(tracing, FALSE, bridge)
           /\ exported' = NotExported
  <2>. PICK tracing \in BOOLEAN, bridge \in {0, bridged + 1} : RequestMiddleware(tracing, FALSE, bridge)
    BY <1>4
  <2>. DEFINE ctx == WithRequestContext(Ctx, ExtractRequestContext(tracing), TRUE)
              capture == FALSE
  <2>1. ContextOK(ctx) /\ ctx.bridge = Ctx.bridge /\ ctx.span = Ctx.span
    BY CtxOK, Attaching
  <2>2. Middleware(ctx, capture, bridge) /\ goroutine' = goroutine
    BY DEF RequestMiddleware
  <2>3. SpansOK' /\ StoreOK' /\ \A t : Handled(spans, t) => Handled(spans', t)
    BY Enriching
  <2>. HIDE DEF ctx, capture
  <2>4. StackInv'
    BY <2>1, <2>2, MiddlewareKeeps
  <2>. PICK f : frames' = Append(frames, f) /\ f.ctx.span = ctx.span
    BY <2>1, <2>2, MiddlewareCalls
  <2>5. \A i \in DOMAIN frames' : \/ i \in DOMAIN frames /\ frames'[i].ctx.span = frames[i].ctx.span
                                  \/ frames'[i].ctx.span = NoId \/ Handled(spans', frames'[i].ctx.span)
    BY <2>1, <2>3, CtxSpan, PushedSpans
  <2>6. FramesOK'
    BY <2>3, <2>5, FramesGo
  <2>. QED BY <1>4, <2>2, <2>3, <2>4, <2>6, NothingExplained
<1>5. CASE (\E s \in Spans : StartSpan(s)) /\ exported' = NotExported
  <2>. PICK s \in Spans : StartSpan(s)
    BY <1>5
  <2>. DEFINE ctx == Ctx
              inner == [ctx EXCEPT !.span = s]
  <2>1. ContextOK(ctx) /\ (ctx.bridge = 0 \/ \E i \in DOMAIN frames : frames[i].bridge = ctx.bridge)
    BY CtxOK
  <2>2. OnStart(s, ctx) /\ Attach(inner) /\ goroutine' = goroutine
    BY DEF StartSpan
  <2>. HIDE DEF ctx
  <2>3. ContextOK(inner) /\ inner.bridge = ctx.bridge /\ inner.span = s
    BY <2>1, Carried
  <2>. HIDE DEF inner
  <2>4. StackInv'
    BY <2>2, <2>3, AttachKeeps DEF ctx
  <2>5. SpansOK' /\ StoreOK' /\ Handled(spans', s) /\ \A t : Handled(spans, t) => Handled(spans', t)
    BY <2>1, <2>2, Starting
  <2>6. \A i \in DOMAIN frames' : \/ i \in DOMAIN frames /\ frames'[i].ctx.span = frames[i].ctx.span
                                  \/ frames'[i].ctx.span = NoId \/ Handled(spans', frames'[i].ctx.span)
    BY <2>2, <2>3, <2>5, AttachedSpans
  <2>7. FramesOK'
    BY <2>5, <2>6, FramesGo
  <2>. QED BY <1>5, <2>2, <2>4, <2>5, <2>7, NothingExplained
<1>6. CASE (\E s \in Spans : StartSpanOfGoroutine(s)) /\ exported' = NotExported
  <2>. PICK s \in Spans : StartSpanOfGoroutine(s)
    BY <1>6
  <2>1. OnStart(s, goroutine) /\ UNCHANGED <<frames, active, defaults, goroutine>>
    BY DEF StartSpanOfGoroutine, contextVars, stackVars
  <2>2. SpansOK' /\ StoreOK' /\ \A t : Handled(spans, t) => Handled(spans', t)
    BY <2>1, Starting
  <2>3. StackInv' /\ FramesOK'
    BY <2>1, <2>2, StackRests, FramesGo
  <2>. QED BY <1>6, <2>1, <2>2, <2>3, NothingExplained
<1>7. CASE CloseStore /\ exported' = NotExported
  <2>1. UNCHANGED <<frames, active, defaults, goroutine, spans>> /\ storeClosed' = TRUE /\ DOMAIN store' = {}
    BY <1>7 DEF CloseStore, contextVars, stackVars
  <2>2. SpansOK' /\ StoreOK' /\ FramesOK'
    BY <2>1 DEF SpansOK, StoreOK, FramesOK, Handled
  <2>. QED BY <1>7, <2>1, <2>2, StackRests, NothingExplained
<1>8. CASE \E s \in Spans, ai \in BOOLEAN, own \in Own : OnEnd(s, ai, own)
  <2>. PICK s \in Spans, ai \in BOOLEAN, own \in Own : OnEnd(s, ai, own)
    BY <1>8
  <2>1. UNCHANGED <<frames, active, defaults, goroutine>>
    BY DEF OnEnd, contextVars, stackVars
  <2>2. SpansOK' /\ StoreOK' /\ Explained(exported)' /\ \A t : Handled(spans, t) => Handled(spans', t)
    BY Ending
  <2>3. StackInv' /\ FramesOK'
    BY <2>1, <2>2, StackRests, FramesGo
  <2>. QED BY <2>1, <2>2, <2>3
<1>9. CASE /\ \/ GiveToGoroutine \/ ShutInner \/ ShutBridge
              \/ CloseClient /\ UNCHANGED <<goroutine, spans, store, storeClosed>>
           /\ exported' = NotExported
  <2>1. UNCHANGED <<frames, active, defaults, spans, store, storeClosed>> /\ goroutine' \in {goroutine, Ctx}
    BY <1>9 DEF CloseClient, GiveToGoroutine, ShutInner, ShutBridge, contextVars, stackVars
  <2>2. ContextOK(goroutine')
    BY <2>1, CtxOK
  <2>. QED BY <1>2, <1>9, <2>1, <2>2
<1>10. CASE UNCHANGED <<contextVars, spanVars>>
  BY <1>2, <1>10 DEF contextVars, stackVars, spanVars
<1>11. CASE /\ \/ StackNext \/ CloseClient
               \/ \E given \in Inherited : Attach(WithRequestContext(Ctx, given, FALSE))
            /\ UNCHANGED <<goroutine, spans, store, storeClosed, innerShut, bridgeShut>>
            /\ exported' = NotExported
  BY <1>1, <1>3, <1>9, <1>11
<1>12. CASE /\ \/ \E tracing \in BOOLEAN, bridge \in {0, bridged + 1} :
                    bridge <= MaxBridged /\ RequestMiddleware(tracing, FALSE, bridge)
               \/ \E s \in Spans : StartSpan(s) \/ StartSpanOfGoroutine(s)
               \/ GiveToGoroutine \/ CloseStore \/ ShutInner \/ ShutBridge
            /\ exported' = NotExported
  <2>1. CASE \E tracing \in BOOLEAN, bridge \in {0, bridged + 1} :
               bridge <= MaxBridged /\ RequestMiddleware(tracing, FALSE, bridge)
    <3>1. \E tracing \in BOOLEAN, bridge \in {0, bridged + 1} : RequestMiddleware(tracing, FALSE, bridge)
      BY <2>1, Zenon
    <3>. QED BY <1>4, <1>12, <3>1
  <2>2. CASE \E s \in Spans : StartSpan(s) \/ StartSpanOfGoroutine(s)
    BY <1>5, <1>6, <1>12, <2>2
  <2>3. CASE GiveToGoroutine \/ CloseStore \/ ShutInner \/ ShutBridge
    <3>1. exported' = NotExported
      BY <1>12
    <3>2. CASE CloseStore
      BY <1>7, <3>1, <3>2
    <3>3. CASE GiveToGoroutine \/ ShutInner \/ ShutBridge
      BY <1>9, <3>1, <3>3
    <3>. QED BY <2>3, <3>2, <3>3
  <2>. QED BY <1>12, <2>1, <2>2, <2>3
<1>. QED BY <1>8, <1>10, <1>11, <1>12 DEF SpansNext

LEMMA SpansHold == SpansSpec => []SpansInv
BY SpansStart, SpansNextKeeps, PTL DEF SpansSpec

\* However a handler ends, and whatever goroutine goes on with its context: a span that
\* is started afterwards gets no ids of the request.
THEOREM LateSpansHaveNoIds == SpansSpec => []LateSpansOmitIds
<1>1. SpansInv => LateSpansOmitIds
  BY DEF SpansInv, SpansOK, IsSpan, LateSpansOmitIds
<1>. QED BY <1>1, SpansHold, PTL

\* A span that ends before Shutdown is exported with its own attributes and those that
\* the layers of the context it was started in mean, with the session of the events of
\* that context unless it has one; and the store holds the contexts of live spans only,
\* none once it is closed.
THEOREM SpansAgreeWithEvents == SpansSpec => []SpansKeepTheirContext
<1>1. SpansInv => SpansKeepTheirContext
  <2>. SUFFICES ASSUME SpansInv PROVE SpansKeepTheirContext
    OBVIOUS
  <2>1. DOMAIN store \subseteq {s \in Spans : spans[s].at = "live"} /\ (storeClosed => DOMAIN store = {})
    BY DEF SpansInv, StoreOK
  <2>2. ASSUME ~exported.late PROVE CarriesItsContext(exported)
    <3>. DEFINE ctx == exported.of.ctx
                own == exported.own
                attributes == exported.attributes
                event == CaptureEvent(ctx, NoId, NoProperties)
    <3>1. ContextOK(ctx) /\ Carries(attributes, own, ctx)
      BY <2>2 DEF SpansInv, Explained
    <3>2. DefaultsOK /\ DOMAIN NoProperties = {}
      BY DEF SpansInv, StackInv, NoProperties
    <3>. HIDE DEF ctx, own, attributes
    <3>3. Tells(event, ctx, NoId, NoProperties)
      BY <3>1, <3>2, Capturing
    <3>. HIDE DEF event
    <3>4. SessionId # DistinctIdAttribute
      BY DEF SessionId, DistinctIdAttribute
    <3>5. SessionId \notin DOMAIN own => ValueOf(attributes, SessionId) = Meant(ctx.layers, SessionId)
      BY <3>1, <3>4 DEF Carries
    <3>6. Meant(ctx.layers, SessionId) =
            IF SessionId \in DOMAIN ctx.properties THEN ctx.properties[SessionId] ELSE ctx.session
      BY <3>1, <3>4, Meaning
    <3>7. ValueOf(event.properties, SessionId) =
            IF SessionId \in DOMAIN ctx.properties THEN ctx.properties[SessionId] ELSE ctx.session
      BY <3>2, <3>3 DEF Tells, ValueOf
    <3>8. \A k : ValueOf(attributes, k) = IF k \in DOMAIN own THEN own[k]
                                          ELSE IF k = DistinctIdAttribute /\ NamesUser(own) THEN NoId
                                          ELSE Meant(ctx.layers, k)
      BY <3>1 DEF Carries
    <3>. QED BY <3>5, <3>6, <3>7, <3>8 DEF CarriesItsContext, ctx, own, attributes, event
  <2>. QED BY <2>1, <2>2 DEF SpansKeepTheirContext
<1>. QED BY <1>1, SpansHold, PTL

=============================================================================
