--------------------------- MODULE RuntimeProofs ----------------------------
(***************************************************************************)
(* What the runtime of the interpreter guarantees of its objects, whatever *)
(* the program, its statements and the number of objects are.              *)
(***************************************************************************)
EXTENDS Runtime, SequenceTheorems, FiniteSetTheorems, NumberInduction, TLAPS

\* Shared values refer to these objects, and members are of these objects.
RefsLive(st, cl) ==
    \A p \in DOMAIN st : st[p].type = "shared" => st[p].obj \in DOMAIN cl \cup {NoObject}

MembersLive(st, cl) == \A p \in DOMAIN st : p[1] = "member" => p[2] \in DOMAIN cl

ObjectsInv == SharedLives /\ MembersLive(store, class)

-----------------------------------------------------------------------------
(* Settling leaves the objects that something shares: the set of the dying *)
(* ones is inside every closed set, hence closed itself; one that is       *)
(* shared from outside could be taken out of it, and it would be smaller.  *)
LEMMA DyingInside ==
    ASSUME NEW st, NEW objects,
           NEW gone \in SUBSET objects,
           objects \ gone \subseteq SharedOutside(st, gone)
    PROVE  Dying(st, objects) \subseteq gone
  BY DEF Dying

(* An object that does not die is shared by something that stays.          *)
LEMMA LivingShared ==
    ASSUME NEW st, NEW objects, NEW o \in objects \ Dying(st, objects)
    PROVE  o \in SharedOutside(st, Dying(st, objects))
  <1>1. PICK gone \in SUBSET objects : /\ objects \ gone \subseteq SharedOutside(st, gone)
                                       /\ o \notin gone
    BY DEF Dying
  <1>2. Dying(st, objects) \subseteq gone
    BY <1>1, DyingInside
  <1>3. o \in SharedOutside(st, gone)
    BY <1>1
  <1> QED
    BY <1>2, <1>3 DEF SharedOutside

(* An object that dies is shared by nothing that stays.                    *)
LEMMA DyingUnshared ==
    ASSUME NEW st, NEW objects, NEW o \in Dying(st, objects)
    PROVE  o \notin SharedOutside(st, Dying(st, objects))
  <1> DEFINE dying == Dying(st, objects)
             less == dying \ {o}
  <1> SUFFICES ASSUME o \in SharedOutside(st, dying) PROVE FALSE
    OBVIOUS
  <1>1. dying \subseteq objects
    BY DEF Dying
  <1>2. \A x \in objects \ dying : x \in SharedOutside(st, dying)
    BY LivingShared
  <1>3. SharedOutside(st, dying) \subseteq SharedOutside(st, less)
    BY DEF SharedOutside
  <1>4. objects \ less \subseteq SharedOutside(st, less)
    BY <1>2, <1>3
  <1> HIDE DEF dying
  <1>5. dying \subseteq less
    BY <1>1, <1>4, DyingInside DEF dying
  <1> QED
    BY <1>5 DEF dying

(* Once the dying have been destroyed, every shared reference is to a living object. *)
LEMMA Settling ==
    ASSUME NEW st, NEW cl, RefsLive(st, cl), MembersLive(st, cl), Settle(st, cl)
    PROVE  ObjectsInv'
  <1> DEFINE dying == Dying(st, DOMAIN cl)
  <1>1. /\ DOMAIN store' = {q \in DOMAIN st : ~(q[1] = "member" /\ q[2] \in dying)}
        /\ \A p \in DOMAIN store' : store'[p] = st[p]
        /\ DOMAIN class' = DOMAIN cl \ dying
    BY DEF Settle
  <1>2. ASSUME NEW p \in DOMAIN store', store'[p].type = "shared"
        PROVE  store'[p].obj \in DOMAIN class' \cup {NoObject}
    <2>1. st[p].obj \in DOMAIN cl \cup {NoObject}
      BY <1>1, <1>2 DEF RefsLive
    <2>2. st[p].obj \in SharedOutside(st, dying)
      BY <1>1, <1>2 DEF SharedOutside
    <2>3. st[p].obj \notin dying
      BY <2>2, DyingUnshared
    <2> QED
      BY <1>1, <2>1, <2>3
  <1>3. ASSUME NEW o \in DOMAIN class'
        PROVE  \E p \in DOMAIN store' : store'[p].type = "shared" /\ store'[p].obj = o
    <2>1. o \in DOMAIN cl \ dying
      BY <1>1
    <2>2. o \in SharedOutside(st, dying)
      BY <2>1, LivingShared
    <2> QED
      BY <1>1, <2>2 DEF SharedOutside
  <1>4. MembersLive(store, class)'
    BY <1>1 DEF MembersLive
  <1> QED
    BY <1>2, <1>3, <1>4 DEF ObjectsInv, SharedLives

-----------------------------------------------------------------------------
(* A name that stands for a place stands for one that has a value.         *)
LEMMA Greatest ==
    ASSUME NEW numbers, NEW none, GreatestOr(numbers, none) # none
    PROVE  GreatestOr(numbers, none) \in numbers
  BY DEF GreatestOr

(* A name that is found at a place is found at one in use.                 *)
LEMMA NamedPlace ==
    ASSUME NEW spec, NEW name, NameOf(spec, name).how = "place"
    PROVE  NameOf(spec, name).place \in DOMAIN store
  <1>1. CASE LocalDepth(name) > 0
    <2> DEFINE depths == {d \in 1 .. Len(frames) : Local(d, name) \in DOMAIN store}
    <2>1. LocalDepth(name) = GreatestOr(depths, 0)
      BY DEF LocalDepth
    <2>2. LocalDepth(name) # 0
      BY <1>1
    <2>3. LocalDepth(name) \in depths
      BY <2>1, <2>2, Greatest
    <2> QED
      BY <1>1, <2>3 DEF NameOf, At
  <1>2. CASE ~(LocalDepth(name) > 0) /\ Around(name) # NoSpace
    <2> DEFINE levels == {n \in 0 .. Len(current) - 1 : HasValue(SubSeq(current, 1, n), name)}
               level == GreatestOr(levels, -1)
    <2>1. level # -1 /\ Around(name) = SubSeq(current, 1, level)
      BY <1>2 DEF Around
    <2>2. level \in levels
      BY <2>1, Greatest
    <2>3. HasValue(Around(name), name)
      BY <2>1, <2>2
    <2> QED
      BY <1>2, <2>3 DEF NameOf, At, HasValue
  <1>3. CASE ~(LocalDepth(name) > 0) /\ ~(Around(name) # NoSpace)
    <2>1. NameOf(spec, name) = Further(spec, name)
      BY <1>3 DEF NameOf
    <2>2. /\ FindValue(current, spec, name) # NoSpace
          /\ Further(spec, name) = At(Global(FindValue(current, spec, name), name))
      BY <2>1 DEF Further, At
    <2>3. HasValue(FindValue(current, spec, name), name)
      BY <2>2 DEF FindValue, Find
    <2> QED
      BY <2>1, <2>2, <2>3 DEF At, HasValue
  <1> QED
    BY <1>1, <1>2, <1>3

(* Members are followed from a name by a last '.', if there is any.        *)
LEMMA Followed ==
    ASSUME NEW start, NEW path
    PROVE  \/ Follow(start, path) = start
           \/ \E left, name : Follow(start, path) = Dot(left, name)
  BY DEF Follow

(* So is an operand.                                                       *)
LEMMA ResolvedPlace ==
    ASSUME NEW operand, Resolve(operand).how = "place"
    PROVE  Resolve(operand).place \in DOMAIN store
  <1>1. CASE Resolve(operand) = NameOf(operand.spec, operand.name)
    BY <1>1, NamedPlace
  <1>2. CASE \E left, name : Resolve(operand) = Dot(left, name)
    BY <1>2 DEF Dot, At
  <1> QED
    BY <1>1, <1>2, Followed DEF Resolve

-----------------------------------------------------------------------------
(* What is got: values that share objects which live, or are new; members  *)
(* of new objects only; objects at addresses that were free.               *)
SharesKnown(value, got) ==
    value.type = "shared" => value.obj \in DOMAIN class \cup DOMAIN got.objects \cup {NoObject}

Sound(got) ==
    /\ SharesKnown(got.value, got)
    /\ \A p \in DOMAIN got.values :
          /\ p[1] = "member" /\ p[2] \in DOMAIN got.objects
          /\ SharesKnown(got.values[p], got)
    /\ DOMAIN got.objects \cap DOMAIN class = {}

\* A value without objects of its own is sound when it shares what lives.
LEMMA PlainSound ==
    ASSUME NEW value, value.type = "shared" => value.obj \in DOMAIN class \cup {NoObject}
    PROVE  Sound(Got(value, <<>>, <<>>))
  BY DEF Sound, SharesKnown, Got

\* What has been got may be put behind the values that are kept, or before
\* them, with a place of its own or without.
LEMMA OverLive ==
    ASSUME NEW f, NEW g, NEW cl,
           RefsLive(f, cl), MembersLive(f, cl), RefsLive(g, cl), MembersLive(g, cl)
    PROVE  RefsLive(Over(f, g), cl) /\ MembersLive(Over(f, g), cl)
  BY DEF RefsLive, MembersLive, Over

(* More objects leave the references to living ones as they are.           *)
LEMMA MoreLive ==
    ASSUME NEW st, NEW cl, NEW more, RefsLive(st, cl), MembersLive(st, cl)
    PROVE  RefsLive(st, Over(more, cl)) /\ MembersLive(st, Over(more, cl))
  BY DEF RefsLive, MembersLive, Over

(* What an evaluation brings refers to objects that live or that it brings. *)
LEMMA ValuesLive ==
    ASSUME NEW place, NEW got, Sound(got), place[1] = "member" => place[2] \in DOMAIN class
    PROVE  LET live == Over(got.objects, class)
           IN  /\ RefsLive(got.values, live) /\ MembersLive(got.values, live)
               /\ RefsLive(Values(got, place), live) /\ MembersLive(Values(got, place), live)
  BY DEF Sound, SharesKnown, RefsLive, MembersLive, Over, Values

-----------------------------------------------------------------------------
(* The objects of a class, at free addresses.                              *)
LEMMA ValueOfEmpty ==
    ASSUME NEW decl, ValueOf(decl).type = "shared"
    PROVE  ValueOf(decl).obj = NoObject
  BY DEF ValueOf, Weak, Literal, NullValue

(* A new object has its members, and shares objects built with it only.    *)
LEMMA BuiltSound ==
    ASSUME NEW parts, NEW root \in parts, root.names = <<>>,
           \A part \in parts : Below(part) \subseteq parts,
           NEW address \in [{part.names : part \in parts} -> Free]
    PROVE  Sound(Built(parts, address))
  <1> DEFINE objects == ClassesAt(parts, address)
             places == UNION {MembersOf(objects, o) : o \in DOMAIN objects}
             value(p) == MemberValue(parts, address, p[2], <<objects[p[2]], p[3]>>)
             got == Built(parts, address)
  <1>1. /\ DOMAIN objects = Range(address)
        /\ got.objects = objects /\ got.value = Shared(address[<<>>])
        /\ got.values = [p \in places |-> value(p)]
    BY DEF Built, Got, ClassesAt
  <1>2. \A part \in parts : address[part.names] \in Range(address)
    BY DEF Range
  <1>3. SharesKnown(got.value, got)
    BY <1>1, <1>2 DEF SharesKnown, Shared
  <1>4. ASSUME NEW p \in DOMAIN got.values
        PROVE  /\ p[1] = "member" /\ p[2] \in DOMAIN got.objects
               /\ SharesKnown(got.values[p], got)
    <2> PICK o \in DOMAIN objects : p \in MembersOf(objects, o)
      BY <1>1, <1>4
    <2>1. PICK k \in Members(objects[o]) : p = Member(o, k[2])
      BY DEF MembersOf
    <2>2. p[1] = "member" /\ p[2] = o /\ p[3] = k[2]
      BY <2>1 DEF Member
    <2>3. k \in DOMAIN varDecls /\ k = <<objects[o], k[2]>>
      BY DEF Members
    <2>4. got.values[p] = MemberValue(parts, address, o, k)
      BY <1>1, <1>4, <2>2, <2>3
    <2>5. SharesKnown(got.values[p], got)
      <3>1. CASE MadeBy(varDecls[k]) = NoSpace
        <4>1. got.values[p] = ValueOf(varDecls[k])
          BY <2>4, <3>1 DEF MemberValue
        <4> HIDE DEF got
        <4> QED
          BY <4>1, ValueOfEmpty DEF SharesKnown
      <3>2. CASE MadeBy(varDecls[k]) # NoSpace
        <4> DEFINE part == PartAt(parts, address, o)
                   below == [names |-> Append(part.names, k[2]), space |-> MadeBy(varDecls[k])]
        <4>1. part \in parts /\ address[part.names] = o
          <5>1. \E a \in parts : address[a.names] = o
            BY <1>1 DEF Range
          <5> QED
            BY <5>1 DEF PartAt
        <4>2. objects[o] = part.space
          BY <1>1 DEF ClassesAt
        <4>3. k \in {m \in Members(part.space) : MadeBy(varDecls[m]) # NoSpace}
          BY <2>1, <3>2, <4>2
        <4>4. below \in Below(part)
          BY <4>3 DEF Below
        <4>5. below \in parts /\ below.names = Append(part.names, k[2])
          BY <4>1, <4>4
        <4>6. address[Append(part.names, k[2])] \in Range(address)
          BY <1>2, <4>5
        <4>7. got.values[p] = Shared(address[Append(part.names, k[2])])
          BY <2>4, <3>2 DEF MemberValue
        <4>8. address[Append(part.names, k[2])] \in DOMAIN got.objects
          BY <1>1, <4>6
        <4> HIDE DEF got
        <4> QED
          BY <4>7, <4>8 DEF SharesKnown, Shared
      <3> QED
        BY <3>1, <3>2
    <2> QED
      BY <1>1, <2>2, <2>5
  <1>5. DOMAIN got.objects \cap DOMAIN class = {}
    BY <1>1 DEF Range, Free
  <1> QED
    BY <1>3, <1>4, <1>5 DEF Sound

(* The first of the parts of an object is the whole.                       *)
LEMMA WholePart ==
    ASSUME NEW space
    PROVE  \E root \in Parts(space) : root.names = <<>>
  <1>1. [names |-> <<>>, space |-> space] \in Parts(space)
    BY DEF Parts
  <1> QED
    BY <1>1

(* A creation that succeeds brings a well-built object.                    *)
LEMMA CreationSound ==
    ASSUME NEW space, NEW isGlobal, NEW got \in Creations(space, isGlobal), got.how = "ok",
           \A k \in DOMAIN varDecls : "ok" \notin Ends(varDecls[k], isGlobal)
    PROVE  Sound(got)
  <1> DEFINE parts == Parts(space)
             names == {part.names : part \in parts}
             ends == UNION {Ends(varDecls[k], isGlobal) :
                                k \in UNION {Members(part.space) : part \in parts}}
             endless == \E part \in parts : ~(Below(part) \subseteq parts)
             failures == ends \cup (IF endless THEN {"undefined"} ELSE {})
  <1>1. "ok" \notin failures
    BY DEF Members
  <1>2. Creations(space, isGlobal) =
            IF failures # {} THEN {Ended(how) : how \in failures}
            ELSE {Built(parts, address) : address \in Allocation(names)}
    BY DEF Creations
  <1> HIDE DEF failures
  <1>3. failures = {}
    BY <1>1, <1>2 DEF Ended
  <1>4. ~endless
    BY <1>3 DEF failures
  <1>5. PICK address \in Allocation(names) : got = Built(parts, address)
    BY <1>2, <1>3
  <1>6. address \in [names -> Free]
    BY DEF Allocation, Injection
  <1> QED
    BY <1>4, <1>5, <1>6, WholePart, BuiltSound

-----------------------------------------------------------------------------
(* Whatever is got, it is sound.                                           *)
Hows == {"place", "class", "stopped", "undefined"}

(* A search for a name ends in one of its ways.                            *)
LEMMA NameHow ==
    ASSUME NEW spec, NEW name
    PROVE  NameOf(spec, name).how \in Hows /\ GlobalNameOf(spec, name).how \in Hows
  BY DEF NameOf, GlobalNameOf, Further, At, Hows

(* So does following members,                                              *)
LEMMA FollowHow ==
    ASSUME NEW start, NEW path, start.how \in Hows
    PROVE  Follow(start, path).how \in Hows
  <1>1. CASE \E left, name : Follow(start, path) = Dot(left, name)
    BY <1>1 DEF Dot, At, Hows
  <1> QED
    BY <1>1, Followed

(* and the search for an operand.                                          *)
LEMMA ResolveHow ==
    ASSUME NEW operand
    PROVE  Resolve(operand).how \in Hows
  BY NameHow, FollowHow DEF Resolve

(* A read that ends an initialisation is no success.                       *)
LEMMA ReadEndsBadly ==
    ASSUME NEW read, NEW isGlobal
    PROVE  "ok" \notin ReadEnds(read, isGlobal)
  <1>1. ASSUME NEW start, start.how \in Hows
        PROVE  Follow(start, read.path).how \in Hows
    BY <1>1, FollowHow
  <1>2. "ok" \notin OperandEnds(read, isGlobal)
    BY <1>1, NameHow DEF OperandEnds, Hows
  <1>3. ReadEnds(read, isGlobal) \in {OperandEnds(read, isGlobal), {}, {"undefined"},
                                     {"stopped", "undefined"}}
    BY DEF ReadEnds
  <1> QED
    BY <1>2, <1>3

(* Nor is the end of the initialisation.                                   *)
LEMMA EndsBadly ==
    ASSUME NEW decl, NEW isGlobal
    PROVE  "ok" \notin Ends(decl, isGlobal)
  <1>1. \/ Ends(decl, isGlobal) \in {{}, {"stopped"}, {"stopped", "undefined"}}
        \/ \E read : Ends(decl, isGlobal) = ReadEnds(read, isGlobal)
    BY DEF Ends
  <1> QED
    BY <1>1, ReadEndsBadly

(* What a declaration initialises its variable with is sound.              *)
LEMMA DeclaredSound ==
    ASSUME NEW decl, NEW isGlobal, NEW got \in Declared(decl, isGlobal), got.how = "ok"
    PROVE  Sound(got)
  <1>1. Ends(decl, isGlobal) = {}
    BY EndsBadly DEF Declared, Ended
  <1>2. CASE MadeBy(decl) # NoSpace
    BY <1>1, <1>2, EndsBadly, CreationSound DEF Declared
  <1>3. CASE MadeBy(decl) = NoSpace
    <2>1. got = Got(ValueOf(decl), <<>>, <<>>)
      BY <1>1, <1>3 DEF Declared
    <2> QED
      BY <2>1, ValueOfEmpty, PlainSound
  <1> QED
    BY <1>2, <1>3

(* So is what a call passes for a parameter.                               *)
LEMMA ArgumentSound ==
    ASSUME RefsLive(store, class), NEW got \in Argument, got.how = "ok"
    PROVE  Sound(got)
  <1> DEFINE args == frames[Depth].args
             found == Resolve(Head(args))
  <1>1. CASE args = <<>> \/ Head(args).kind = "literal"
    <2>1. got = Got(NullValue, <<>>, <<>>) \/ got = Got(Literal, <<>>, <<>>)
      BY <1>1 DEF Argument
    <2> QED
      BY <2>1, PlainSound DEF NullValue, Literal
  <1>2. CASE ~(args = <<>> \/ Head(args).kind = "literal") /\ found.how = "place"
    <2>1. got = Got(store[found.place], <<>>, <<>>)
      BY <1>2 DEF Argument
    <2>2. found.place \in DOMAIN store
      BY <1>2, ResolvedPlace
    <2> QED
      BY <2>1, <2>2, PlainSound DEF RefsLive
  <1>3. CASE ~(args = <<>> \/ Head(args).kind = "literal") /\ found.how = "class"
    <2>1. got \in Creations(found.space, FALSE)
      BY <1>3 DEF Argument
    <2> QED
      BY <2>1, EndsBadly, CreationSound
  <1>4. CASE ~(args = <<>> \/ Head(args).kind = "literal") /\ found.how \notin {"place", "class"}
    <2>1. got = Ended(found.how)
      BY <1>4 DEF Argument
    <2> QED
      BY <2>1, ResolveHow DEF Ended, Hows
  <1> QED
    BY <1>1, <1>2, <1>3, <1>4

(* So is what is assigned, which keeps the kind of the reference.          *)
LEMMA AssignedSound ==
    ASSUME RefsLive(store, class), NEW left, NEW p \in DOMAIN store,
           Assigned(left, store[p]).how = "ok"
    PROVE  /\ Sound(Assigned(left, store[p]))
           /\ Assigned(left, store[p]).value.type = left.type
           /\ Assigned(left, store[p]).objects = <<>>
  <1> DEFINE right == store[p]
  <1>1. PICK value : /\ Assigned(left, right) = Got(value, <<>>, <<>>)
                     /\ value.type = left.type
                     /\ value.type = "shared" => value.obj = right.obj
                     /\ right.type = "shared" \/ right.obj \in DOMAIN class
    BY DEF Assigned, Ended, Shared, Pointers
  <1> QED
    BY <1>1, PlainSound DEF RefsLive, Got

-----------------------------------------------------------------------------
(* Every step keeps the objects that are shared, and those only.           *)
LEMMA FailStep ==
    ASSUME NEW how, Fail(how)
    PROVE  ObjectsInv'
  BY DEF Fail, ObjectsInv, SharedLives, MembersLive

(* A value that is kept at a place leaves the references to living objects. *)
LEMMA SettledStep ==
    ASSUME ObjectsInv, NEW got, Sound(got), NEW place,
           place[1] = "member" => place[2] \in DOMAIN class,
           Settled(got, place)
    PROVE  ObjectsInv'
  <1> DEFINE live == Over(got.objects, class)
  <1>1. RefsLive(store, live) /\ MembersLive(store, live)
    BY MoreLive DEF ObjectsInv, SharedLives, RefsLive
  <1>2. RefsLive(Values(got, place), live) /\ MembersLive(Values(got, place), live)
    BY ValuesLive
  <1>3. RefsLive(Placed(got, place), live) /\ MembersLive(Placed(got, place), live)
    BY <1>1, <1>2, OverLive DEF Placed
  <1> QED
    BY <1>3, Settling DEF Settled

(* So does the binding of a parameter,                                     *)
LEMMA BindStep ==
    ASSUME ObjectsInv, NEW got, Sound(got), Bind(got)
    PROVE  ObjectsInv'
  <1> DEFINE live == Over(got.objects, class)
  <1>1. PICK place : /\ place = Local(Depth, Head(frames[Depth].params))
                     /\ Settle(Over(store, Values(got, place)), live)
    BY DEF Bind
  <1>2. place[1] # "member"
    BY <1>1 DEF Local
  <1>3. RefsLive(store, live) /\ MembersLive(store, live)
    BY MoreLive DEF ObjectsInv, SharedLives, RefsLive
  <1>4. RefsLive(Values(got, place), live) /\ MembersLive(Values(got, place), live)
    BY <1>2, ValuesLive
  <1>5. /\ RefsLive(Over(store, Values(got, place)), live)
        /\ MembersLive(Over(store, Values(got, place)), live)
    BY <1>3, <1>4, OverLive
  <1> QED
    BY <1>1, <1>5, Settling

(* the end of a call,                                                      *)
LEMMA EndStep ==
    ASSUME ObjectsInv, NEW got, Sound(got), End(got)
    PROVE  ObjectsInv'
  <1> DEFINE live == Over(got.objects, class)
             place == Local(Depth - 1, Head(frames[Depth - 1].params))
  <1>1. PICK more \in {Values(got, place), got.values} : Settle(Over(LocalsGone, more), live)
    BY DEF End
  <1>2. RefsLive(store, class) /\ MembersLive(store, class)
    BY DEF ObjectsInv, SharedLives, RefsLive
  <1>3. RefsLive(LocalsGone, class) /\ MembersLive(LocalsGone, class)
    BY <1>2 DEF LocalsGone, RefsLive, MembersLive
  <1>4. RefsLive(LocalsGone, live) /\ MembersLive(LocalsGone, live)
    BY <1>3, MoreLive
  <1>5. place[1] # "member"
    BY DEF Local
  <1>6. RefsLive(more, live) /\ MembersLive(more, live)
    BY <1>5, ValuesLive
  <1>7. RefsLive(Over(LocalsGone, more), live) /\ MembersLive(Over(LocalsGone, more), live)
    BY <1>4, <1>6, OverLive
  <1> QED
    BY <1>1, <1>7, Settling

(* an assignment,                                                          *)
LEMMA AssignStep ==
    ASSUME ObjectsInv, NEW left, NEW right, Assign(left, right)
    PROVE  ObjectsInv' \/ UNCHANGED allRunVars
  <1> DEFINE l == Resolve(left)
             r == IF right.kind = "literal" THEN [how |-> "literal"] ELSE Resolve(right)
             got == IF r.how = "place" THEN Assigned(store[l.place], store[r.place])
                    ELSE IF r.how = "class" \/ store[l.place].type \notin Pointers
                    THEN Ended("aborted") ELSE Ended("undefined")
  <1>1. CASE \E how : Fail(how)
    BY <1>1, FailStep
  <1>2. CASE UNCHANGED allRunVars
    BY <1>2
  <1>3. CASE l.how = "place" /\ got.how = "ok" /\ Settled(got, l.place)
    <2>1. r.how = "place"
      BY <1>3 DEF Ended
    <2>2. r = Resolve(right)
      BY <2>1
    <2>3. r.place \in DOMAIN store /\ l.place \in DOMAIN store
      BY <1>3, <2>1, <2>2, ResolvedPlace
    <2>4. RefsLive(store, class) /\ MembersLive(store, class)
      BY DEF ObjectsInv, SharedLives, RefsLive
    <2>5. Sound(got)
      BY <1>3, <2>1, <2>3, <2>4, AssignedSound
    <2>6. l.place[1] = "member" => l.place[2] \in DOMAIN class
      BY <2>3, <2>4 DEF MembersLive
    <2> QED
      BY <1>3, <2>5, <2>6, SettledStep
  <1>4. \/ \E how : Fail(how)
        \/ UNCHANGED allRunVars
        \/ l.how = "place" /\ got.how = "ok" /\ Settled(got, l.place)
    BY DEF Assign
  <1> QED
    BY <1>1, <1>2, <1>3, <1>4

(* and every step of a program.                                            *)
LEMMA ObjectsStep ==
    ASSUME ObjectsInv, [RunNext]_allRunVars
    PROVE  ObjectsInv'
  <1>1. RefsLive(store, class)
    BY DEF ObjectsInv, SharedLives, RefsLive
  <1>2. CASE UNCHANGED <<store, class>>
    BY <1>2 DEF ObjectsInv, SharedLives, MembersLive
  <1>3. CASE EnterSpace
    BY <1>2, <1>3 DEF EnterSpace
  <1>4. CASE InitGlobal
    <2> PICK k \in NextPending :
            \E got \in Declared(varDecls[k], TRUE) :
                IF got.how # "ok" THEN Fail(got.how) ELSE Settled(got, Global(k[1], k[2]))
      BY <1>4 DEF InitGlobal
    <2>1. PICK got \in Declared(varDecls[k], TRUE) :
              IF got.how # "ok" THEN Fail(got.how) ELSE Settled(got, Global(k[1], k[2]))
      OBVIOUS
    <2>2. Global(k[1], k[2])[1] # "member"
      BY DEF Global
    <2> QED
      BY <2>1, <2>2, FailStep, SettledStep, DeclaredSound
  <1>5. CASE StartMain
    BY <1>2, <1>5, FailStep DEF StartMain
  <1>6. ASSUME NEW call, Enter(call)
        PROVE  ObjectsInv'
    BY <1>2, <1>6, FailStep DEF Enter
  <1>7. ASSUME NEW s, Execute(s)
        PROVE  ObjectsInv'
    <2>1. CASE Declare(s.name, s.decl)
      <3>1. PICK got \in Declared(s.decl, FALSE) :
                (\E how : Fail(how)) \/ (got.how = "ok" /\ Settled(got, Local(Depth, s.name)))
        BY <2>1 DEF Declare
      <3>2. Local(Depth, s.name)[1] # "member"
        BY DEF Local
      <3> QED
        BY <3>1, <3>2, FailStep, SettledStep, DeclaredSound
    <2>2. CASE Assign(s.left, s.right)
      BY <1>2, <2>2, AssignStep DEF allRunVars, runVars
    <2>3. CASE Call(s)
      BY <1>6, <2>3 DEF Call
    <2>4. CASE Return(s.value)
      <3>1. \/ UNCHANGED allRunVars
            \/ \E how : Fail(how)
            \/ \E space : \E got \in Creations(space, FALSE) : got.how = "ok" /\ End(got)
        BY <2>4 DEF Return
      <3>2. CASE UNCHANGED allRunVars
        BY <1>2, <3>2 DEF allRunVars, runVars
      <3> QED
        BY <3>1, <3>2, FailStep, EndStep, CreationSound, EndsBadly
    <2> QED
      BY <1>7, <2>1, <2>2, <2>3, <2>4 DEF Execute
  <1>8. CASE PassArgument
    <2>1. \/ Enter(Head(frames[Depth].args))
          \/ \E got \in Argument : IF got.how = "ok" THEN Bind(got) ELSE Fail(got.how)
      BY <1>8 DEF PassArgument
    <2> QED
      BY <1>1, <1>6, <2>1, FailStep, BindStep, ArgumentSound
  <1>9. CASE EndCall
    <2>1. Sound(Got(NullValue, <<>>, <<>>))
      BY PlainSound DEF NullValue
    <2> QED
      BY <1>9, <2>1, EndStep DEF EndCall
  <1>10. CASE StrayCopy
    BY <1>10, FailStep DEF StrayCopy
  <1>11. CASE UNCHANGED allRunVars
    BY <1>2, <1>11 DEF allRunVars, runVars
  <1> QED
    BY <1>3, <1>4, <1>5, <1>7, <1>8, <1>9, <1>10, <1>11 DEF RunNext

(* Whatever the program and however many objects it makes, every object    *)
(* that a shared value refers to is there, and every object there is       *)
(* shared: nothing the runtime does to values drops one too early or       *)
(* leaves one behind, but in a cycle.                                      *)
THEOREM ObjectsSharedLive == RunSpec => []SharedLives
  <1>1. RunInit => ObjectsInv
    BY DEF RunInit, ObjectsInv, SharedLives, MembersLive
  <1>2. ObjectsInv /\ [RunNext]_allRunVars => ObjectsInv'
    BY ObjectsStep
  <1>3. ObjectsInv => SharedLives
    BY DEF ObjectsInv
  <1> QED
    BY <1>1, <1>2, <1>3, PTL DEF RunSpec

-----------------------------------------------------------------------------
(* The type of a value.  What is got never takes a place that is in use:   *)
(* its members are of new objects, and its own place is new, or yields to  *)
(* the value that is there, or has a value of the same type assigned.      *)
Kinds == \A p \in DOMAIN store \cap DOMAIN store' : store'[p].type = store[p].type

(* The death of objects leaves the kinds of the values that remain.        *)
LEMMA SettleKinds ==
    ASSUME NEW st, NEW cl, Settle(st, cl),
           \A p \in DOMAIN store \cap DOMAIN st : st[p].type = store[p].type
    PROVE  Kinds
  BY DEF Settle, Kinds

(* A failure changes no kind.                                              *)
LEMMA FailKinds ==
    ASSUME NEW how, Fail(how)
    PROVE  Kinds
  BY DEF Fail, Kinds

(* The members of a new object are in places not in use.                   *)
LEMMA NewMembers ==
    ASSUME ObjectsInv, NEW got, Sound(got)
    PROVE  DOMAIN got.values \cap DOMAIN store = {}
  BY DEF ObjectsInv, MembersLive, Sound

(* A value of the kind of its place leaves the kinds as they are.          *)
LEMMA SettledKinds ==
    ASSUME ObjectsInv, NEW got, Sound(got), NEW place, Settled(got, place),
           place \in DOMAIN store => got.value.type = store[place].type
    PROVE  Kinds
  <1>1. \A p \in DOMAIN store : Placed(got, place)[p].type = store[p].type
    BY NewMembers DEF Placed, Values, Over
  <1> QED
    BY <1>1, SettleKinds DEF Settled

(* A parameter is bound in a place of its own,                             *)
LEMMA BindKinds ==
    ASSUME NEW got, Bind(got)
    PROVE  Kinds
  BY SettleKinds DEF Bind, Over

\* The parameter of the caller is no local variable of the call that ends.
LEMMA EndKinds ==
    ASSUME ObjectsInv, NEW got, Sound(got), Len(frames) \in Nat, End(got)
    PROVE  Kinds
  <1> DEFINE place == Local(Depth - 1, Head(frames[Depth - 1].params))
  <1>1. PICK more \in {Values(got, place), got.values} :
            Settle(Over(LocalsGone, more), Over(got.objects, class))
    BY DEF End
  <1>2. \A p \in DOMAIN store \ DOMAIN LocalsGone : p \notin DOMAIN got.values /\ p # place
    BY NewMembers DEF LocalsGone, Local, Depth
  <1>3. \A p \in DOMAIN store \ DOMAIN LocalsGone : p \notin DOMAIN more
    BY <1>2 DEF Values, Over
  <1>4. \A p \in DOMAIN store \cap DOMAIN Over(LocalsGone, more) :
            Over(LocalsGone, more)[p] = store[p]
    BY <1>3 DEF LocalsGone, Over
  <1> QED
    BY <1>1, <1>4, SettleKinds

(* An assignment keeps the kind of what it assigns to.                     *)
LEMMA AssignKinds ==
    ASSUME ObjectsInv, NEW left, NEW right, Assign(left, right)
    PROVE  Kinds
  <1> DEFINE l == Resolve(left)
             r == IF right.kind = "literal" THEN [how |-> "literal"] ELSE Resolve(right)
             got == IF r.how = "place" THEN Assigned(store[l.place], store[r.place])
                    ELSE IF r.how = "class" \/ store[l.place].type \notin Pointers
                    THEN Ended("aborted") ELSE Ended("undefined")
  <1>1. CASE \E how : Fail(how)
    BY <1>1, FailKinds
  <1>2. CASE UNCHANGED allRunVars
    BY <1>2 DEF Kinds, allRunVars, runVars
  <1>3. CASE got.how = "ok" /\ Settled(got, l.place)
    <2>1. r.how = "place" /\ r = Resolve(right)
      BY <1>3 DEF Ended
    <2>2. r.place \in DOMAIN store
      BY <2>1, ResolvedPlace
    <2>3. Sound(got) /\ got.value.type = store[l.place].type
      BY <1>3, <2>1, <2>2, AssignedSound DEF ObjectsInv, SharedLives, RefsLive
    <2> QED
      BY <1>3, <2>3, SettledKinds
  <1>4. \/ \E how : Fail(how)
        \/ UNCHANGED allRunVars
        \/ got.how = "ok" /\ Settled(got, l.place)
    BY DEF Assign
  <1> QED
    BY <1>1, <1>2, <1>3, <1>4

-----------------------------------------------------------------------------
(* The calls in progress are a sequence.                                   *)
FramesInv == \E S : frames \in Seq(S)

(* A sequence over a set is one over a larger set.                         *)
LEMMA WiderSeq ==
    ASSUME NEW S, NEW frame, NEW seq \in Seq(S)
    PROVE  seq \in Seq(S \cup {frame})
  BY SeqMonotonic, ElementOfSeq

(* No calls are a sequence of calls.                                       *)
LEMMA EmptyFrames ==
    ASSUME frames' = <<>>
    PROVE  FramesInv'
  <1>1. <<>> \in Seq({})
    OBVIOUS
  <1> QED
    BY <1>1 DEF FramesInv

(* So are the calls with one more,                                         *)
LEMMA AppendedFrames ==
    ASSUME NEW S, NEW seq \in Seq(S), NEW frame, frames' = Append(seq, frame)
    PROVE  FramesInv'
  <1>1. seq \in Seq(S \cup {frame})
    BY WiderSeq
  <1>2. Append(seq, frame) \in Seq(S \cup {frame})
    BY <1>1
  <1> QED
    BY <1>2 DEF FramesInv

(* with the last one changed,                                              *)
LEMMA ChangedFrames ==
    ASSUME NEW S, NEW seq \in Seq(S), NEW frame, frames' = [seq EXCEPT ![Len(seq)] = frame]
    PROVE  FramesInv'
  <1>1. seq \in Seq(S \cup {frame})
    BY WiderSeq
  <1>2. CASE seq = <<>>
    <2>1. [seq EXCEPT ![Len(seq)] = frame] = <<>>
      BY <1>2
    <2> QED
      BY <2>1, EmptyFrames
  <1>3. CASE seq # <<>>
    <2>1. Len(seq) \in 1 .. Len(seq)
      BY <1>3, EmptySeq
    <2>2. [seq EXCEPT ![Len(seq)] = frame] \in Seq(S \cup {frame})
      BY <1>1, <2>1, ExceptSeq
    <2> QED
      BY <2>2 DEF FramesInv
  <1> QED
    BY <1>2, <1>3

(* or without it.                                                          *)
LEMMA FrontFrames ==
    ASSUME NEW S, NEW seq \in Seq(S)
    PROVE  /\ Front(seq) \in Seq(S)
           /\ Len(Front(seq)) = Len(seq) - 1 \/ Front(seq) = <<>>
  <1>1. Len(seq) \in Nat /\ Front(seq) = SubSeq(seq, 1, Len(seq) - 1)
    BY DEF Front
  <1>2. \A i \in 1 .. Len(seq) - 1 : seq[i] \in S
    BY <1>1, ElementOfSeq
  <1> DEFINE last == Len(seq) - 1
  <1>3. last \in Int
    BY <1>1
  <1> HIDE DEF last
  <1>4. /\ SubSeq(seq, 1, last) \in Seq(S)
        /\ Len(SubSeq(seq, 1, last)) = IF 1 <= last THEN last - 1 + 1 ELSE 0
    BY <1>2, <1>3, SubSeqProperties DEF last
  <1>5. CASE 1 <= last
    BY <1>1, <1>3, <1>4, <1>5 DEF last
  <1>6. CASE ~(1 <= last)
    <2>1. SubSeq(seq, 1, last) = <<>>
      BY <1>4, <1>6, EmptySeq
    <2> QED
      BY <1>1, <1>4, <2>1 DEF last
  <1> QED
    BY <1>5, <1>6

(* A failure leaves a sequence of calls.                                   *)
LEMMA FailFrames ==
    ASSUME NEW how, Fail(how)
    PROVE  FramesInv'
  BY EmptyFrames DEF Fail

(* So does the end of a call,                                              *)
LEMMA EndFrames ==
    ASSUME NEW S, frames \in Seq(S), NEW got, End(got)
    PROVE  FramesInv'
  <1>1. /\ Front(frames) \in Seq(S)
        /\ Len(Front(frames)) = Depth - 1 \/ Front(frames) = <<>>
    BY FrontFrames DEF Depth
  <1>2. \/ frames' = Front(frames)
        \/ \E frame : frames' = [Front(frames) EXCEPT ![Depth - 1] = frame]
    BY DEF End
  <1>3. CASE frames' = Front(frames)
    BY <1>1, <1>3 DEF FramesInv
  <1>4. ASSUME NEW frame, frames' = [Front(frames) EXCEPT ![Depth - 1] = frame]
        PROVE  FramesInv'
    <2>1. CASE Len(Front(frames)) = Depth - 1
      BY <1>1, <1>4, <2>1, ChangedFrames
    <2>2. CASE Front(frames) = <<>>
      <3>1. [<<>> EXCEPT ![Depth - 1] = frame] = <<>>
        OBVIOUS
      <3> QED
        BY <1>4, <2>2, <3>1, EmptyFrames
    <2> QED
      BY <1>1, <2>1, <2>2
  <1> QED
    BY <1>2, <1>3, <1>4

(* and every step of a program.                                            *)
LEMMA FramesStep ==
    ASSUME FramesInv, [RunNext]_allRunVars
    PROVE  FramesInv'
  <1> PICK S : frames \in Seq(S)
    BY DEF FramesInv
  <1>1. CASE frames' = frames
    BY <1>1 DEF FramesInv
  <1>2. ASSUME NEW call, Enter(call)
        PROVE  FramesInv'
    <2>1. (\E how : Fail(how)) \/ \E frame : frames' = Append(frames, frame)
      BY <1>2 DEF Enter
    <2> QED
      BY <2>1, FailFrames, AppendedFrames
  <1>3. ASSUME NEW got, End(got)
        PROVE  FramesInv'
    BY <1>3, EndFrames
  <1>4. ASSUME NEW s, Execute(s)
        PROVE  FramesInv'
    <2>1. CASE Declare(s.name, s.decl)
      BY <1>1, <2>1, FailFrames DEF Declare
    <2>2. CASE Assign(s.left, s.right)
      BY <1>1, <2>2, FailFrames DEF Assign, allRunVars, runVars
    <2>3. CASE Call(s)
      BY <1>2, <2>3 DEF Call
    <2>4. CASE Return(s.value)
      BY <1>1, <1>3, <2>4, FailFrames DEF Return, allRunVars, runVars
    <2> QED
      BY <1>4, <2>1, <2>2, <2>3, <2>4 DEF Execute
  <1>5. CASE PassArgument
    <2>1. \/ Enter(Head(frames[Depth].args))
          \/ \E how : Fail(how)
          \/ \E got : Bind(got)
      BY <1>5 DEF PassArgument
    <2>2. ASSUME NEW got, Bind(got)
          PROVE  FramesInv'
      <3>1. frames' = [frames EXCEPT ![Len(frames)] = Passed(frames[Len(frames)])]
        BY <2>2 DEF Bind, Depth
      <3> QED
        BY <3>1, ChangedFrames
    <2> QED
      BY <1>2, <2>1, <2>2, FailFrames
  <1>6. CASE StartMain
    <2>1. (\E how : Fail(how)) \/ \E frame : frames' = Append(<<>>, frame)
      BY <1>6 DEF StartMain
    <2>2. <<>> \in Seq({})
      OBVIOUS
    <2> QED
      BY <2>1, <2>2, FailFrames, AppendedFrames
  <1>7. CASE EnterSpace
    BY <1>1, <1>7 DEF EnterSpace
  <1>8. CASE InitGlobal
    BY <1>1, <1>8, FailFrames DEF InitGlobal
  <1>9. CASE EndCall
    BY <1>3, <1>9 DEF EndCall
  <1>10. CASE StrayCopy
    BY <1>10, FailFrames DEF StrayCopy
  <1>11. CASE UNCHANGED allRunVars
    BY <1>1, <1>11 DEF allRunVars, runVars
  <1> QED
    BY <1>4, <1>5, <1>6, <1>7, <1>8, <1>9, <1>10, <1>11 DEF RunNext

-----------------------------------------------------------------------------
(* Every step keeps the types of the values that remain.                   *)
LEMMA KindsStep ==
    ASSUME ObjectsInv, FramesInv, RunNext
    PROVE  Kinds
  <1>1. Len(frames) \in Nat
    BY DEF FramesInv
  <1>2. CASE UNCHANGED store
    BY <1>2 DEF Kinds
  <1>3. CASE EnterSpace
    BY <1>2, <1>3 DEF EnterSpace
  <1>4. CASE InitGlobal
    <2> PICK k \in NextPending :
            \E got \in Declared(varDecls[k], TRUE) :
                IF got.how # "ok" THEN Fail(got.how) ELSE Settled(got, Global(k[1], k[2]))
      BY <1>4 DEF InitGlobal
    <2>1. PICK got \in Declared(varDecls[k], TRUE) :
              IF got.how # "ok" THEN Fail(got.how) ELSE Settled(got, Global(k[1], k[2]))
      OBVIOUS
    <2>2. Global(k[1], k[2]) \notin DOMAIN store
      BY DEF NextPending, Pending, HasValue
    <2> QED
      BY <2>1, <2>2, FailKinds, SettledKinds, DeclaredSound
  <1>5. CASE StartMain
    BY <1>2, <1>5, FailKinds DEF StartMain
  <1>6. ASSUME NEW call, Enter(call)
        PROVE  Kinds
    BY <1>2, <1>6, FailKinds DEF Enter
  <1>7. ASSUME NEW s, Execute(s)
        PROVE  Kinds
    <2>1. CASE Declare(s.name, s.decl)
      <3>1. PICK got \in Declared(s.decl, FALSE) :
                \/ \E how : Fail(how)
                \/ /\ got.how = "ok" /\ Local(Depth, s.name) \notin DOMAIN store
                   /\ Settled(got, Local(Depth, s.name))
        BY <2>1 DEF Declare
      <3> QED
        BY <3>1, FailKinds, SettledKinds, DeclaredSound
    <2>2. CASE Assign(s.left, s.right)
      BY <2>2, AssignKinds
    <2>3. CASE Call(s)
      BY <1>6, <2>3 DEF Call
    <2>4. CASE Return(s.value)
      <3>1. \/ UNCHANGED allRunVars
            \/ \E how : Fail(how)
            \/ \E space : \E got \in Creations(space, FALSE) : got.how = "ok" /\ End(got)
        BY <2>4 DEF Return
      <3>2. CASE UNCHANGED allRunVars
        BY <1>2, <3>2 DEF allRunVars, runVars
      <3> QED
        BY <1>1, <3>1, <3>2, FailKinds, EndKinds, CreationSound, EndsBadly
    <2> QED
      BY <1>7, <2>1, <2>2, <2>3, <2>4 DEF Execute
  <1>8. CASE PassArgument
    <2>1. \/ Enter(Head(frames[Depth].args))
          \/ \E how : Fail(how)
          \/ \E got : Bind(got)
      BY <1>8 DEF PassArgument
    <2> QED
      BY <1>6, <2>1, FailKinds, BindKinds
  <1>9. CASE EndCall
    <2>1. Sound(Got(NullValue, <<>>, <<>>))
      BY PlainSound DEF NullValue
    <2> QED
      BY <1>1, <1>9, <2>1, EndKinds DEF EndCall
  <1>10. CASE StrayCopy
    BY <1>10, FailKinds DEF StrayCopy
  <1> QED
    BY <1>3, <1>4, <1>5, <1>7, <1>8, <1>9, <1>10 DEF RunNext

(* Whatever the program, a value keeps its type for as long as its place   *)
(* exists: assignments, arguments and the members of new objects never     *)
(* turn a weak reference into a shared one, nor back.                      *)
THEOREM ReferencesKeepTheirKind == RunSpec => KindsKept
  <1> DEFINE Inv == ObjectsInv /\ FramesInv
  <1>1. RunInit => Inv
    <2>1. RunInit => ObjectsInv
      BY DEF RunInit, ObjectsInv, SharedLives, MembersLive
    <2>2. <<>> \in Seq({})
      OBVIOUS
    <2>3. RunInit => FramesInv
      BY <2>2 DEF RunInit, FramesInv
    <2> QED
      BY <2>1, <2>3
  <1>2. Inv /\ [RunNext]_allRunVars => Inv'
    BY ObjectsStep, FramesStep
  <1>3. Inv /\ [RunNext]_allRunVars => [Kinds]_runVars
    BY KindsStep DEF allRunVars
  <1>4. [Kinds]_runVars =>
            [\A p \in DOMAIN store \cap DOMAIN store' : store'[p].type = store[p].type]_runVars
    BY DEF Kinds
  <1> HIDE DEF Inv
  <1> QED
    BY <1>1, <1>2, <1>3, <1>4, PTL DEF RunSpec, KindsKept

-----------------------------------------------------------------------------
(* The name of a caller's variable, looked up in the function called.      *)
LEMMA GreatestFound ==
    ASSUME NEW numbers, NEW none, GreatestOr(numbers, none) # none
    PROVE  /\ GreatestOr(numbers, none) \in numbers
           /\ \A k \in numbers : k <= GreatestOr(numbers, none)
  BY DEF GreatestOr

(* A name of the caller that the call does not have is found at the caller. *)
LEMMA CallerIsNearest ==
    ASSUME NEW name, Depth \in Nat, CallerDepth(name) > 0, Local(Depth, name) \notin DOMAIN store
    PROVE  LocalDepth(name) = CallerDepth(name)
  <1>1. {d \in 1 .. Len(frames) : Local(d, name) \in DOMAIN store}
            = {d \in 1 .. Depth - 1 : Local(d, name) \in DOMAIN store}
    <2>1. \A d \in 1 .. Depth : d \in 1 .. Depth - 1 \/ d = Depth
      OBVIOUS
    <2>2. \A d \in 1 .. Depth - 1 : d \in 1 .. Depth
      OBVIOUS
    <2> QED
      BY <2>1, <2>2 DEF Depth
  <1> QED
    BY <1>1 DEF LocalDepth, CallerDepth

(* What is bound to a parameter is the value of that variable of the caller. *)
LEMMA PassedStep ==
    ASSUME FramesInv, RunNext, running = "main", running' = "main", Passing,
           Local(Depth, Head(frames[Depth].params)) \notin DOMAIN store,
           frames[Depth].args # <<>>, NamesCallersLocal(Head(frames[Depth].args))
    PROVE  LET name == Head(frames[Depth].args).name
           IN  store'[Local(Depth, Head(frames[Depth].params))]
                   = store[Local(CallerDepth(name), name)]
  <1> DEFINE arg == Head(frames[Depth].args)
             name == arg.name
             param == Local(Depth, Head(frames[Depth].params))
             from == Local(CallerDepth(name), name)
             got == Got(store[from], <<>>, <<>>)
  <1>1. Depth \in Nat
    BY DEF FramesInv, Depth
  <1>2. PassArgument
    BY DEF RunNext, EnterSpace, InitGlobal, StartMain, Execute, Declare, Assign, Call, Return,
           EndCall, AtStatement, StrayCopy, Fail
  <1>3. arg.kind = "name" /\ arg.path = <<>> /\ CallerDepth(name) > 0
        /\ Local(Depth, name) \notin DOMAIN store
    BY DEF NamesCallersLocal
  <1>4. Resolve(arg) = At(from)
    <2>1. LocalDepth(name) = CallerDepth(name)
      BY <1>1, <1>3, CallerIsNearest
    <2>2. NameOf(arg.spec, name) = At(from)
      BY <1>3, <2>1 DEF NameOf
    <2>3. Len(arg.path) = 0
      BY <1>3
    <2> QED
      BY <2>2, <2>3 DEF Resolve, Follow
  <1>5. Argument = {got}
    <2> DEFINE found == Resolve(arg)
    <2>1. arg.kind # "literal"
      BY <1>3
    <2>2. found.how = "place" /\ found.place = from
      BY <1>4 DEF At
    <2>3. frames[Depth].args # <<>>
      OBVIOUS
    <2> HIDE DEF from
    <2>4. Argument = {Got(store[found.place], <<>>, <<>>)}
      BY <2>1, <2>2, <2>3 DEF Argument
    <2> QED
      BY <2>2, <2>4
  <1>6. Bind(got)
    BY <1>2, <1>3, <1>5 DEF PassArgument, Got
  <1>7. Settle(Over(store, Values(got, param)), Over(<<>>, class))
    BY <1>6 DEF Bind, Got
  <1>8. /\ param \in DOMAIN Over(store, Values(got, param))
        /\ Over(store, Values(got, param))[param] = store[from]
    BY DEF Over, Values, Got
  <1>9. param[1] # "member"
    BY DEF Local
  <1> QED
    BY <1>7, <1>8, <1>9 DEF Settle

(* Whatever the program, an argument that names a local variable of the    *)
(* callers is passed its value, although it is looked up where the         *)
(* function called is (FunctionCall::doExecute), unless a parameter of     *)
(* that name has been passed before it.                                    *)
THEOREM ArgumentsOfCallers == RunSpec => ArgumentOfCaller
  <1> DEFINE Step ==
          running' = "main" /\ running = "main" /\ Passing /\ Len(frames') = Depth =>
              \A param \in {Local(Depth, Head(frames[Depth].params))} \ DOMAIN store :
                  frames[Depth].args # <<>> /\ NamesCallersLocal(Head(frames[Depth].args)) =>
                      LET name == Head(frames[Depth].args).name
                      IN  store'[param] = store[Local(CallerDepth(name), name)]
  <1>1. RunInit => FramesInv
    <2>1. <<>> \in Seq({})
      OBVIOUS
    <2> QED
      BY <2>1 DEF RunInit, FramesInv
  <1>2. FramesInv /\ [RunNext]_allRunVars => FramesInv'
    BY FramesStep
  <1>3. FramesInv /\ [RunNext]_allRunVars => [Step]_runVars
    BY PassedStep DEF allRunVars
  <1> QED
    BY <1>1, <1>2, <1>3, PTL DEF RunSpec, ArgumentOfCaller

-----------------------------------------------------------------------------
(* The spaces that are found are in the tree.                              *)
LEMMA FoundClass ==
    ASSUME NEW space, NEW spec, NEW name, FindClass(space, spec, name) # NoSpace
    PROVE  Append(FindClass(space, spec, name), name) \in DOMAIN spaces
  BY DEF FindClass, Find

(* A class that a declaration makes an object of is one of the program.    *)
LEMMA MadeInTree ==
    ASSUME NEW decl, MadeBy(decl) # NoSpace
    PROVE  MadeBy(decl) \in DOMAIN spaces
  BY FoundClass DEF MadeBy

(* So is the class that a name is found to be,                             *)
LEMMA FurtherClass ==
    ASSUME NEW spec, NEW name, Further(spec, name).how = "class"
    PROVE  Further(spec, name).space \in DOMAIN spaces
  BY FoundClass DEF Further, At

(* and the one that an operand is.                                         *)
LEMMA ResolvedClass ==
    ASSUME NEW operand, Resolve(operand).how = "class"
    PROVE  Resolve(operand).space \in DOMAIN spaces
  <1>1. CASE Resolve(operand) = NameOf(operand.spec, operand.name)
    BY <1>1, FurtherClass DEF NameOf, At
  <1>2. CASE \E left, name : Resolve(operand) = Dot(left, name)
    BY <1>2 DEF Dot, At
  <1> QED
    BY <1>1, <1>2, Followed DEF Resolve

-----------------------------------------------------------------------------
(* The objects below an object, level by level.                            *)
Inside == [names : Seq(STRING), space : DOMAIN spaces]

NextLevel == [level \in SUBSET Inside |-> UNION {Below(part) : part \in level}]

(* The objects in an object of the program are of classes of the program.  *)
LEMMA BelowInside ==
    ASSUME TreeOK, NEW part \in Inside
    PROVE  Below(part) \subseteq Inside
  <1> SUFFICES ASSUME NEW k \in Members(part.space), MadeBy(varDecls[k]) # NoSpace
               PROVE  [names |-> Append(part.names, k[2]), space |-> MadeBy(varDecls[k])] \in Inside
    BY DEF Below
  <1>1. k[2] \in STRING
    BY DEF Members, TreeOK
  <1>2. Append(part.names, k[2]) \in Seq(STRING)
    BY <1>1 DEF Inside
  <1>3. MadeBy(varDecls[k]) \in DOMAIN spaces
    BY MadeInTree
  <1> QED
    BY <1>2, <1>3 DEF Inside

(* So are those of the next level.                                         *)
LEMMA NextLevelType ==
    ASSUME TreeOK
    PROVE  NextLevel \in [SUBSET Inside -> SUBSET Inside]
  BY BelowInside DEF NextLevel

(* The parts of an object are of classes of the program.                   *)
LEMMA PartsInside ==
    ASSUME TreeOK, NEW space \in DOMAIN spaces
    PROVE  Parts(space) \subseteq Inside
  <1> DEFINE whole == [names |-> <<>>, space |-> space]
             n == Cardinality(DOMAIN spaces)
             Level(l) == [i \in 0 .. n |->
                             IF i = 0 THEN {whole} ELSE UNION {Below(part) : part \in l[i - 1]}]
             level == CHOOSE level : level = Level(level)
             D == SUBSET Inside
  <1>1. n \in Nat
    BY FS_CardinalityType DEF TreeOK
  <1>2. {whole} \in D
    BY DEF Inside
  <1>3. NextLevel \in [D -> D]
    BY NextLevelType
  <1>4. \A S \in D : NextLevel[S] = UNION {Below(part) : part \in S}
    BY DEF NextLevel
  <1> HIDE DEF n, whole, D
  <1>5. PICK f \in [0 .. n -> D] : f[0] = {whole} /\ Iterates(f, NextLevel, n)
    BY <1>1, <1>2, <1>3, IterationExists
  <1>6. f = Level(f)
    <2>1. ASSUME NEW i \in 0 .. n, i # 0
          PROVE  f[i] = UNION {Below(part) : part \in f[i - 1]}
      <3>1. i \in 1 .. n /\ i - 1 \in 0 .. n
        BY <1>1, <2>1
      <3>2. f[i] = NextLevel[f[i - 1]] /\ f[i - 1] \in D
        BY <1>5, <3>1 DEF Iterates
      <3> QED
        BY <1>4, <3>2
    <2> QED
      BY <1>5, <2>1
  <1>7. level = Level(level)
    <2> HIDE DEF Level
    <2> QED
      BY <1>6
  <1>8. Parts(space) = {whole} \cup UNION {level[i] : i \in DOMAIN level}
    BY DEF Parts, whole, n
  <1> HIDE DEF level
  <1>9. DOMAIN level = 0 .. n /\ level[0] = {whole}
    <2>1. 0 \in 0 .. n
      BY <1>1
    <2> QED
      BY <1>7, <2>1
  <1>10. ASSUME NEW i \in 1 .. n, level[i - 1] \in D
         PROVE  level[i] \in D
    <2>1. i \in 0 .. n /\ i # 0
      BY <1>1
    <2>2. level[i] = UNION {Below(part) : part \in level[i - 1]}
      BY <1>7, <2>1
    <2>3. NextLevel[level[i - 1]] \in D
      BY <1>3, <1>10
    <2> QED
      BY <1>4, <1>10, <2>2, <2>3
  <1>11. \A i \in 0 .. n : level[i] \in D
    BY <1>1, <1>2, <1>9, <1>10, RemainsInside
  <1> QED
    BY <1>2, <1>8, <1>9, <1>11 DEF D

-----------------------------------------------------------------------------
(* The type of the state.  Members are those that the class of their       *)
(* object declares, local variables are of calls in progress, and every    *)
(* call knows the namespace to come back to.                               *)
ClassOK(cl) ==
    /\ cl \in [DOMAIN cl -> DOMAIN spaces]
    /\ DOMAIN cl \subseteq Objects

ValueOK(value) ==
    value.type \in {"literal", "null"} \cup Pointers /\ value.obj \in Objects \cup {NoObject}

MemberOK(p, cl) ==
    p[1] = "member" /\ p[2] \in DOMAIN cl /\ <<cl[p[2]], p[3]>> \in DOMAIN varDecls

PlaceOK(p, cl, depth) ==
    \/ p[1] = "global" /\ <<p[2], p[3]>> \in DOMAIN varDecls
    \/ p[1] = "local" /\ p[2] \in 1 .. depth
    \/ MemberOK(p, cl)

StoreOK(st, cl, depth) == \A p \in DOMAIN st : ValueOK(st[p]) /\ PlaceOK(p, cl, depth)

GotOK(got) ==
    /\ ClassOK(got.objects) /\ ValueOK(got.value)
    /\ \A p \in DOMAIN got.values : ValueOK(got.values[p]) /\ MemberOK(p, got.objects)

FrameOK(frame) == "back" \in DOMAIN frame /\ frame.back \in DOMAIN spaces

\* How the program ends, but by an assignment to what it has freed.
Stops == {"stopped", "aborted", "undefined"}

RunOK(st, cl, cur, calls, run) ==
    /\ ClassOK(cl) /\ StoreOK(st, cl, Len(calls))
    /\ cur \in DOMAIN spaces
    /\ \A i \in 1 .. Len(calls) : FrameOK(calls[i])
    /\ run \in {"init", "main", "finished", "freed"} \cup Stops
    /\ run = "main" => Len(calls) # 0
    /\ run = "init" => Len(calls) = 0

(* What is got has its type.                                               *)
LEMMA PlainOK ==
    ASSUME NEW value, ValueOK(value)
    PROVE  GotOK(Got(value, <<>>, <<>>))
  BY DEF GotOK, Got, ClassOK

(* A variable without an object starts with a value.                       *)
LEMMA ValueOfOK ==
    ASSUME NEW decl, decl.ref \in {"shared", "weak"}
    PROVE  ValueOK(ValueOf(decl))
  BY DEF ValueOf, ValueOK, Weak, Literal, NullValue, Pointers

(* A new object has the class and the members that its class declares.     *)
LEMMA BuiltOK ==
    ASSUME TreeOK, NEW parts, parts \subseteq Inside, NEW root \in parts, root.names = <<>>,
           \A part \in parts : Below(part) \subseteq parts,
           NEW address \in [{part.names : part \in parts} -> Free]
    PROVE  GotOK(Built(parts, address))
  <1> DEFINE objects == ClassesAt(parts, address)
             places == UNION {MembersOf(objects, o) : o \in DOMAIN objects}
             value(p) == MemberValue(parts, address, p[2], <<objects[p[2]], p[3]>>)
             got == Built(parts, address)
  <1>1. /\ DOMAIN objects = Range(address)
        /\ got.objects = objects /\ got.value = Shared(address[<<>>])
        /\ got.values = [p \in places |-> value(p)]
    BY DEF Built, Got, ClassesAt
  <1>2. \A part \in parts : address[part.names] \in Objects
    BY DEF Free
  <1>3. \A o \in DOMAIN objects : PartAt(parts, address, o) \in parts
    <2>1. \A o \in DOMAIN objects : \E a \in parts : address[a.names] = o
      BY <1>1 DEF Range
    <2> QED
      BY <2>1 DEF PartAt
  <1>4. ClassOK(objects)
    <2>1. DOMAIN objects \subseteq Objects
      BY <1>1 DEF Range, Free
    <2>2. objects = [o \in DOMAIN objects |-> PartAt(parts, address, o).space]
      BY DEF ClassesAt
    <2>3. \A part \in parts : part.space \in DOMAIN spaces
      BY DEF Inside
    <2> HIDE DEF objects
    <2> QED
      BY <1>3, <2>1, <2>2, <2>3 DEF ClassOK
  <1>5. ValueOK(got.value)
    BY <1>1, <1>2 DEF ValueOK, Shared, Pointers
  <1>6. ASSUME NEW p \in DOMAIN got.values
        PROVE  ValueOK(got.values[p]) /\ MemberOK(p, got.objects)
    <2> PICK o \in DOMAIN objects : p \in MembersOf(objects, o)
      BY <1>1, <1>6
    <2>1. PICK k \in Members(objects[o]) : p = Member(o, k[2])
      BY DEF MembersOf
    <2>2. p[1] = "member" /\ p[2] = o /\ p[3] = k[2]
      BY <2>1 DEF Member
    <2>3. k \in DOMAIN varDecls /\ k = <<objects[o], k[2]>>
      BY DEF Members
    <2>4. got.values[p] = MemberValue(parts, address, o, k)
      BY <1>1, <1>6, <2>2, <2>3
    <2>5. ValueOK(MemberValue(parts, address, o, k))
      <3>1. CASE MadeBy(varDecls[k]) = NoSpace
        BY <2>3, <3>1, ValueOfOK DEF MemberValue, TreeOK
      <3>2. CASE MadeBy(varDecls[k]) # NoSpace
        <4> DEFINE part == PartAt(parts, address, o)
                   below == [names |-> Append(part.names, k[2]), space |-> MadeBy(varDecls[k])]
        <4>1. part \in parts /\ objects[o] = part.space
          BY <1>3 DEF ClassesAt
        <4>2. below \in Below(part)
          BY <2>1, <3>2, <4>1 DEF Below
        <4>3. below \in parts /\ below.names = Append(part.names, k[2])
          BY <4>1, <4>2
        <4>4. address[Append(part.names, k[2])] \in Objects
          BY <1>2, <4>3
        <4> QED
          BY <3>2, <4>4 DEF MemberValue, ValueOK, Shared, Pointers
      <3> QED
        BY <3>1, <3>2
    <2> QED
      BY <1>1, <2>2, <2>3, <2>4, <2>5 DEF MemberOK
  <1> QED
    BY <1>1, <1>4, <1>5, <1>6 DEF GotOK

(* The members of what has a place are no classes.                         *)
LEMMA FollowedPlace ==
    ASSUME NEW start, NEW path, start.how = "place"
    PROVE  Follow(start, path).how # "class"
  <1>1. CASE \E left, name : Follow(start, path) = Dot(left, name)
    BY <1>1 DEF Dot, At
  <1> QED
    BY <1>1, Followed

(* A read that ends an initialisation ends it in one of the ways to stop.  *)
LEMMA ReadEndsHow ==
    ASSUME NEW read, NEW isGlobal
    PROVE  ReadEnds(read, isGlobal) \subseteq Stops
  <1> DEFINE start == IF isGlobal THEN GlobalNameOf(read.spec, read.name)
                      ELSE NameOf(read.spec, read.name)
             found == Follow(start, read.path)
  <1>1. start.how \in Hows /\ found.how \in Hows
    BY NameHow, FollowHow
  <1>2. OperandEnds(read, isGlobal) \subseteq Stops
    <2>1. \/ OperandEnds(read, isGlobal) \in {{}, {"stopped"}, {"stopped", "undefined"}}
          \/ OperandEnds(read, isGlobal) = {start.how} /\ start.how \notin {"place", "class"}
          \/ OperandEnds(read, isGlobal) = {found.how} /\ found.how # "place" /\ found.how # "class"
      <3>1. start.how = "place" => found.how # "class"
        BY FollowedPlace
      <3> HIDE DEF start, found
      <3> QED
        BY <3>1 DEF OperandEnds, start, found
    <2> QED
      BY <1>1, <2>1 DEF Hows, Stops
  <1>3. ReadEnds(read, isGlobal) \in {OperandEnds(read, isGlobal), {}, {"undefined"},
                                     {"stopped", "undefined"}}
    BY DEF ReadEnds
  <1> QED
    BY <1>2, <1>3 DEF Stops

(* So does everything else that ends it.                                   *)
LEMMA EndsHow ==
    ASSUME NEW decl, NEW isGlobal
    PROVE  Ends(decl, isGlobal) \subseteq Stops
  <1>1. \/ Ends(decl, isGlobal) \in {{}, {"stopped"}, {"stopped", "undefined"}}
        \/ \E read : Ends(decl, isGlobal) = ReadEnds(read, isGlobal)
    BY DEF Ends
  <1> QED
    BY <1>1, ReadEndsHow DEF Stops

\* What has been got, or how the program ends.
Outcome(got) ==
    IF got.how = "ok" THEN GotOK(got) /\ Sound(got) ELSE got.how \in Stops

(* A creation brings a well-built object or stops the program.             *)
LEMMA CreationOutcome ==
    ASSUME TreeOK, NEW space \in DOMAIN spaces, NEW isGlobal, NEW got \in Creations(space, isGlobal)
    PROVE  Outcome(got)
  <1> DEFINE parts == Parts(space)
             names == {part.names : part \in parts}
             ends == UNION {Ends(varDecls[k], isGlobal) :
                                k \in UNION {Members(part.space) : part \in parts}}
             endless == \E part \in parts : ~(Below(part) \subseteq parts)
             failures == ends \cup (IF endless THEN {"undefined"} ELSE {})
  <1>1. failures \subseteq Stops
    BY EndsHow DEF Stops
  <1>2. Creations(space, isGlobal) =
            IF failures # {} THEN {Ended(how) : how \in failures}
            ELSE {Built(parts, address) : address \in Allocation(names)}
    BY DEF Creations
  <1> HIDE DEF failures
  <1>3. CASE failures # {}
    BY <1>1, <1>2, <1>3 DEF Outcome, Ended, Stops
  <1>4. CASE failures = {}
    <2>1. ~endless
      BY <1>4 DEF failures
    <2>2. PICK address \in Allocation(names) : got = Built(parts, address)
      BY <1>2, <1>4
    <2>3. address \in [names -> Free]
      BY DEF Allocation, Injection
    <2>4. PICK root \in parts : root.names = <<>>
      BY WholePart
    <2>5. parts \subseteq Inside
      BY PartsInside
    <2>6. GotOK(got) /\ Sound(got) /\ got.how = "ok"
      <3>1. got.how = "ok"
        BY <2>2 DEF Built, Got
      <3> HIDE DEF parts
      <3> QED
        BY <2>1, <2>2, <2>3, <2>4, <2>5, <3>1, BuiltOK, BuiltSound
    <2> QED
      BY <2>6 DEF Outcome
  <1> QED
    BY <1>3, <1>4

(* A value that needs no object is a good outcome.                         *)
LEMMA PlainOutcome ==
    ASSUME NEW value, ValueOK(value), value.type = "shared" => value.obj \in DOMAIN class \cup {NoObject}
    PROVE  Outcome(Got(value, <<>>, <<>>))
  BY PlainOK, PlainSound DEF Outcome, Got

(* A declaration has a good outcome,                                       *)
LEMMA DeclaredOutcome ==
    ASSUME NEW decl, NEW isGlobal, NEW got \in Declared(decl, isGlobal),
           TreeOK, decl.ref \in {"shared", "weak"}
    PROVE  Outcome(got)
  <1>1. CASE Ends(decl, isGlobal) # {}
    BY <1>1, EndsHow DEF Declared, Ended, Outcome, Stops
  <1>2. CASE Ends(decl, isGlobal) = {} /\ MadeBy(decl) # NoSpace
    BY <1>2, MadeInTree, CreationOutcome DEF Declared
  <1>3. CASE Ends(decl, isGlobal) = {} /\ MadeBy(decl) = NoSpace
    BY <1>3, ValueOfOK, ValueOfEmpty, PlainOutcome DEF Declared
  <1> QED
    BY <1>1, <1>2, <1>3

(* so has an argument,                                                     *)
LEMMA ArgumentOutcome ==
    ASSUME TreeOK, RefsLive(store, class), StoreOK(store, class, Depth), NEW got \in Argument
    PROVE  Outcome(got)
  <1> DEFINE args == frames[Depth].args
             found == Resolve(Head(args))
  <1>1. CASE args = <<>> \/ Head(args).kind = "literal"
    <2>1. got = Got(NullValue, <<>>, <<>>) \/ got = Got(Literal, <<>>, <<>>)
      BY <1>1 DEF Argument
    <2> QED
      BY <2>1, PlainOutcome DEF NullValue, Literal, ValueOK
  <1>2. CASE ~(args = <<>> \/ Head(args).kind = "literal") /\ found.how = "place"
    <2>1. got = Got(store[found.place], <<>>, <<>>)
      BY <1>2 DEF Argument
    <2>2. found.place \in DOMAIN store
      BY <1>2, ResolvedPlace
    <2> QED
      BY <2>1, <2>2, PlainOutcome DEF RefsLive, StoreOK
  <1>3. CASE ~(args = <<>> \/ Head(args).kind = "literal") /\ found.how = "class"
    <2>1. got \in Creations(found.space, FALSE)
      BY <1>3 DEF Argument
    <2>2. found.space \in DOMAIN spaces
      BY <1>3, ResolvedClass
    <2> QED
      BY <2>1, <2>2, CreationOutcome
  <1>4. CASE ~(args = <<>> \/ Head(args).kind = "literal") /\ found.how \notin {"place", "class"}
    <2>1. got = Ended(found.how)
      BY <1>4 DEF Argument
    <2> QED
      BY <1>4, <2>1, ResolveHow DEF Ended, Hows, Outcome, Stops
  <1> QED
    BY <1>1, <1>2, <1>3, <1>4

(* and so has what is assigned.                                            *)
LEMMA AssignedOutcome ==
    ASSUME RefsLive(store, class), NEW depth, StoreOK(store, class, depth),
           NEW left, left.type \in {"literal", "null"} \cup Pointers, NEW p \in DOMAIN store
    PROVE  Outcome(Assigned(left, store[p]))
  <1> DEFINE right == store[p]
  <1>1. ValueOK(right)
    BY DEF StoreOK
  <1>2. \/ Assigned(left, right).how \in Stops
        \/ \E value : /\ Assigned(left, right) = Got(value, <<>>, <<>>)
                      /\ value.type \in Pointers /\ value.obj = right.obj
                      /\ value.type = "shared" => right.type = "shared" \/ right.obj \in DOMAIN class
    BY DEF Assigned, Ended, Shared, Pointers, Stops
  <1>3. CASE Assigned(left, right).how \in Stops
    BY <1>3 DEF Outcome, Stops
  <1>4. ASSUME NEW value, Assigned(left, right) = Got(value, <<>>, <<>>),
               value.type \in Pointers, value.obj = right.obj,
               value.type = "shared" => right.type = "shared" \/ right.obj \in DOMAIN class
        PROVE  Outcome(Assigned(left, right))
    <2>1. ValueOK(value)
      BY <1>1, <1>4 DEF ValueOK
    <2>2. value.type = "shared" => value.obj \in DOMAIN class \cup {NoObject}
      BY <1>4 DEF RefsLive
    <2> QED
      BY <1>4, <2>1, <2>2, PlainOutcome
  <1> QED
    BY <1>2, <1>3, <1>4

(* What has been got goes well with what is there.                         *)
LEMMA SettleOK ==
    ASSUME NEW st, NEW cl, ClassOK(cl), NEW depth, StoreOK(st, cl, depth), Settle(st, cl)
    PROVE  ClassOK(class') /\ StoreOK(store', class', depth)
  <1> DEFINE dying == Dying(st, DOMAIN cl)
  <1>1. /\ DOMAIN store' = {q \in DOMAIN st : ~(q[1] = "member" /\ q[2] \in dying)}
        /\ \A p \in DOMAIN store' : store'[p] = st[p]
        /\ DOMAIN class' = DOMAIN cl \ dying
        /\ class' = [o \in DOMAIN class' |-> cl[o]]
    BY DEF Settle
  <1> HIDE DEF dying
  <1>2. ClassOK(class')
    BY <1>1 DEF ClassOK
  <1>3. ASSUME NEW p \in DOMAIN store'
        PROVE  ValueOK(store'[p]) /\ PlaceOK(p, class', depth)
    <2>1. ValueOK(st[p]) /\ PlaceOK(p, cl, depth)
      BY <1>1, <1>3 DEF StoreOK
    <2>2. MemberOK(p, cl) => MemberOK(p, class')
      BY <1>1, <1>3 DEF MemberOK
    <2> QED
      BY <1>1, <1>3, <2>1, <2>2 DEF PlaceOK
  <1> QED
    BY <1>2, <1>3 DEF StoreOK

(* The new objects and the old ones together have their types.             *)
LEMMA LiveOK ==
    ASSUME ClassOK(class), NEW got, GotOK(got), Sound(got), NEW depth
    PROVE  LET live == Over(got.objects, class)
           IN  /\ ClassOK(live)
               /\ \A p : PlaceOK(p, class, depth) => PlaceOK(p, live, depth)
               /\ StoreOK(got.values, live, depth)
  <1> DEFINE live == Over(got.objects, class)
  <1>1. /\ live = [o \in DOMAIN live |-> live[o]]
        /\ DOMAIN live = DOMAIN got.objects \cup DOMAIN class
        /\ \A o \in DOMAIN got.objects : live[o] = got.objects[o]
        /\ \A o \in DOMAIN class : live[o] = class[o]
    BY DEF Over, Sound
  <1> HIDE DEF live
  <1>2. ClassOK(live)
    BY <1>1 DEF ClassOK, GotOK
  <1>3. \A p : PlaceOK(p, class, depth) => PlaceOK(p, live, depth)
    BY <1>1 DEF PlaceOK, MemberOK
  <1>4. StoreOK(got.values, live, depth)
    BY <1>1 DEF StoreOK, GotOK, PlaceOK, MemberOK
  <1> QED
    BY <1>2, <1>3, <1>4 DEF live

(* Two stores laid over one another have theirs.                           *)
LEMMA OverOK ==
    ASSUME NEW f, NEW g, NEW cl, NEW depth, StoreOK(f, cl, depth), StoreOK(g, cl, depth)
    PROVE  StoreOK(Over(f, g), cl, depth)
  BY DEF StoreOK, Over

\* The values that are kept, with what has been got before or behind them.
LEMMA KeptOK ==
    ASSUME ClassOK(class), NEW got, GotOK(got), Sound(got), NEW depth,
           NEW st, StoreOK(st, class, depth), NEW place, PlaceOK(place, class, depth)
    PROVE  LET live == Over(got.objects, class)
           IN  /\ ClassOK(live)
               /\ StoreOK(Over(Values(got, place), st), live, depth)
               /\ StoreOK(Over(st, Values(got, place)), live, depth)
               /\ StoreOK(Over(st, got.values), live, depth)
  <1> DEFINE live == Over(got.objects, class)
             own == [p \in {place} |-> got.value]
  <1>1. /\ ClassOK(live)
        /\ \A p : PlaceOK(p, class, depth) => PlaceOK(p, live, depth)
        /\ StoreOK(got.values, live, depth)
    BY LiveOK
  <1> HIDE DEF live
  <1>2. StoreOK(st, live, depth)
    BY <1>1 DEF StoreOK
  <1>3. StoreOK(own, live, depth)
    BY <1>1 DEF StoreOK, GotOK
  <1>4. Values(got, place) = Over(own, got.values)
    BY DEF Values
  <1>5. StoreOK(Values(got, place), live, depth)
    BY <1>1, <1>3, <1>4, OverOK
  <1> QED
    BY <1>1, <1>2, <1>5, OverOK DEF live

\* The state after a step; nothing leads back to the initialisation.
NextOK ==
    /\ RunOK(store', class', current', frames', running')
    /\ running' = "init" => running = "init"

NowOK == RunOK(store, class, current, frames, running)

(* A failure keeps the types.                                              *)
LEMMA FailOK ==
    ASSUME TreeOK, NEW how \in Stops \cup {"freed"}, Fail(how)
    PROVE  NextOK
  <1>1. /\ store' = <<>> /\ class' = <<>> /\ frames' = <<>> /\ current' = Top /\ running' = how
    BY DEF Fail
  <1>2. Top \in DOMAIN spaces
    BY DEF TreeOK
  <1>3. how # "main" /\ how # "init"
    BY DEF Stops
  <1> QED
    BY <1>1, <1>2, <1>3 DEF NextOK, RunOK, ClassOK, StoreOK

(* So does a value kept at a place,                                        *)
LEMMA SettledOK ==
    ASSUME NowOK, NEW got, GotOK(got), Sound(got), NEW place, PlaceOK(place, class, Len(frames)),
           Settled(got, place), UNCHANGED <<current, frames, running>>
    PROVE  NextOK
  <1>1. ClassOK(class) /\ StoreOK(store, class, Len(frames))
    BY DEF NowOK, RunOK
  <1>2. /\ ClassOK(Over(got.objects, class))
        /\ StoreOK(Placed(got, place), Over(got.objects, class), Len(frames))
    BY <1>1, KeptOK DEF Placed
  <1>3. ClassOK(class') /\ StoreOK(store', class', Len(frames))
    BY <1>2, SettleOK DEF Settled
  <1> QED
    BY <1>3 DEF NowOK, NextOK, RunOK

(* the binding of a parameter,                                             *)
LEMMA BindOK ==
    ASSUME NowOK, NEW S, frames \in Seq(S), running = "main",
           NEW got, GotOK(got), Sound(got), Bind(got)
    PROVE  NextOK
  <1> DEFINE frame == Passed(frames[Depth])
  <1>1. PICK place : /\ place = Local(Depth, Head(frames[Depth].params))
                     /\ Settle(Over(store, Values(got, place)), Over(got.objects, class))
    BY DEF Bind
  <1>2. Depth \in 1 .. Depth /\ Depth \in Nat /\ Len(frames) = Depth
    BY EmptySeq DEF NowOK, RunOK, Depth
  <1>3. PlaceOK(place, class, Depth)
    BY <1>1, <1>2 DEF PlaceOK, Local
  <1>4. ClassOK(class) /\ StoreOK(store, class, Depth)
    BY <1>2 DEF NowOK, RunOK
  <1>5. ClassOK(class') /\ StoreOK(store', class', Depth)
    <2>1. /\ ClassOK(Over(got.objects, class))
          /\ StoreOK(Over(store, Values(got, place)), Over(got.objects, class), Depth)
      BY <1>3, <1>4, KeptOK
    <2> QED
      BY <1>1, <2>1, SettleOK
  <1>6. frames' = [frames EXCEPT ![Depth] = frame] /\ UNCHANGED <<current, running>>
    BY DEF Bind
  <1>7. FrameOK(frame)
    <2>1. FrameOK(frames[Depth])
      BY <1>2 DEF NowOK, RunOK
    <2> QED
      BY <2>1 DEF Passed, FrameOK
  <1> HIDE DEF frame
  <1>8. /\ Len(frames') = Depth
        /\ \A j \in 1 .. Depth : frames'[j] = IF j = Depth THEN frame ELSE frames[j]
    <2>1. frames \in Seq(S \cup {frame})
      BY WiderSeq
    <2> QED
      BY <1>2, <1>6, <2>1, ExceptSeq
  <1>9. \A i \in 1 .. Depth : FrameOK(frames'[i])
    BY <1>2, <1>7, <1>8 DEF NowOK, RunOK
  <1> QED
    BY <1>2, <1>5, <1>6, <1>8, <1>9 DEF NowOK, NextOK, RunOK

(* the beginning of a call,                                                *)
LEMMA EnterOK ==
    ASSUME TreeOK, NowOK, NEW S, frames \in Seq(S), running = "main", NEW call, Enter(call)
    PROVE  NextOK
  <1> DEFINE space == FindFunc(current, call.spec, call.name)
             func == funcs[<<space, call.name>>]
             frame == [back |-> current, params |-> func.params, args |-> call.args]
  <1>1. CASE space = NoSpace
    <2>1. Fail("stopped")
      BY <1>1 DEF Enter
    <2> QED
      BY <2>1, FailOK DEF Stops
  <1>2. CASE space # NoSpace
    <2>1. <<space, call.name>> \in DOMAIN funcs
      BY <1>2 DEF FindFunc, Find
    <2>2. func.space \in DOMAIN spaces
      BY <2>1 DEF TreeOK
    <2>3. /\ frames' = Append(frames, frame) /\ current' = func.space
          /\ UNCHANGED <<store, class, running>>
      BY <1>2 DEF Enter
    <2>4. FrameOK(frame)
      BY DEF FrameOK, NowOK, RunOK
    <2> HIDE DEF space, func, frame
    <2>5. Len(frames) \in Nat
      OBVIOUS
    <2>6. frames \in Seq(S \cup {frame})
      BY WiderSeq
    <2>7. /\ Len(frames') = Len(frames) + 1
          /\ \A i \in 1 .. Len(frames) : frames'[i] = frames[i]
          /\ frames'[Len(frames) + 1] = frame
      BY <2>3, <2>6, AppendProperties
    <2>8. \A i \in 1 .. Len(frames') : FrameOK(frames'[i])
      <3>1. \A i \in 1 .. Len(frames') : i \in 1 .. Len(frames) \/ i = Len(frames) + 1
        BY <2>5, <2>7
      <3> QED
        BY <2>4, <2>7, <3>1 DEF NowOK, RunOK
    <2>9. StoreOK(store, class, Len(frames'))
      <3>1. \A p : PlaceOK(p, class, Len(frames)) => PlaceOK(p, class, Len(frames'))
        BY <2>5, <2>7 DEF PlaceOK
      <3> QED
        BY <3>1 DEF NowOK, RunOK, StoreOK
    <2>10. Len(frames') # 0
      BY <2>5, <2>7
    <2> QED
      BY <2>2, <2>3, <2>8, <2>9, <2>10 DEF NowOK, NextOK, RunOK
  <1> QED
    BY <1>1, <1>2

\* The innermost call is gone, and its caller may have got its argument.
LEMMA EndCalls ==
    ASSUME NEW S, frames \in Seq(S), Depth # 0, \A i \in 1 .. Depth : FrameOK(frames[i]),
           NEW got, End(got)
    PROVE  Len(frames') = Depth - 1 /\ \A i \in 1 .. Depth - 1 : FrameOK(frames'[i])
  <1> DEFINE front == Front(frames)
             frame == Passed(front[Depth - 1])
             wanted == Depth > 1 /\ frames[Depth - 1].params # <<>>
  <1>1. Depth \in Nat \ {0} /\ Depth = Len(frames)
    BY DEF Depth
  <1>2. front = SubSeq(frames, 1, Depth - 1)
    BY DEF Front, Depth
  <1>3. /\ front \in Seq(S) /\ Len(front) = Depth - 1
        /\ \A i \in 1 .. Depth - 1 : front[i] = frames[i]
    <2>1. \A i \in 1 .. Depth - 1 : i \in 1 .. Depth
      BY <1>1
    <2>2. \A i \in 1 .. Depth - 1 : frames[i] \in S
      BY <1>1, <2>1, ElementOfSeq
    <2> DEFINE last == Depth - 1
    <2>3. last \in Nat
      BY <1>1
    <2>4. front = SubSeq(frames, 1, last) /\ \A i \in 1 .. last : frames[i] \in S
      BY <1>2, <2>2
    <2> HIDE DEF last, front
    <2>5. /\ front \in Seq(S)
          /\ Len(front) = IF 1 <= last THEN last - 1 + 1 ELSE 0
          /\ \A i \in 1 .. last - 1 + 1 : front[i] = frames[1 + i - 1]
      BY <2>3, <2>4, SubSeqProperties
    <2>6. Len(front) = last /\ \A i \in 1 .. last : front[i] = frames[i]
      BY <2>3, <2>5
    <2> QED
      BY <2>5, <2>6 DEF last
  <1>4. \A i \in 1 .. Depth - 1 : FrameOK(front[i])
    BY <1>1, <1>3
  <1>5. CASE ~wanted
    <2>1. frames' = front
      BY <1>5 DEF End
    <2> QED
      BY <1>3, <1>4, <2>1
  <1>6. CASE wanted
    <2>1. frames' = [front EXCEPT ![Depth - 1] = frame]
      BY <1>6 DEF End
    <2>2. Depth - 1 \in 1 .. Depth - 1
      BY <1>1, <1>6
    <2>3. FrameOK(frame)
      <3>1. FrameOK(front[Depth - 1])
        BY <1>4, <2>2
      <3> HIDE DEF front
      <3> QED
        BY <3>1 DEF Passed, FrameOK
    <2> HIDE DEF front, frame
    <2>4. front \in Seq(S \cup {frame})
      BY <1>3, WiderSeq
    <2>5. /\ Len(frames') = Depth - 1
          /\ \A j \in 1 .. Depth - 1 : frames'[j] = IF j = Depth - 1 THEN frame ELSE front[j]
      BY <1>3, <2>1, <2>2, <2>4, ExceptSeq
    <2> QED
      BY <1>4, <2>3, <2>5
  <1> QED
    BY <1>5, <1>6

(* its end,                                                                *)
LEMMA EndOK ==
    ASSUME NowOK, NEW S, frames \in Seq(S), running = "main",
           NEW got, GotOK(got), Sound(got), End(got)
    PROVE  NextOK
  <1> DEFINE live == Over(got.objects, class)
             place == Local(Depth - 1, Head(frames[Depth - 1].params))
             wanted == Depth > 1 /\ frames[Depth - 1].params # <<>>
  <1>1. Depth \in Nat \ {0} /\ Depth = Len(frames)
    BY DEF NowOK, RunOK, Depth
  <1>2. \A i \in 1 .. Depth : FrameOK(frames[i])
    BY <1>1 DEF NowOK, RunOK
  <1>3. Len(frames') = Depth - 1 /\ \A i \in 1 .. Depth - 1 : FrameOK(frames'[i])
    BY <1>1, <1>2, EndCalls
  <1>4. ClassOK(class) /\ StoreOK(LocalsGone, class, Depth - 1)
    <2>1. ClassOK(class) /\ StoreOK(store, class, Depth)
      BY <1>1 DEF NowOK, RunOK
    <2>2. ASSUME NEW p \in DOMAIN LocalsGone
          PROVE  ValueOK(LocalsGone[p]) /\ PlaceOK(p, class, Depth - 1)
      <3>1. p \in DOMAIN store /\ LocalsGone[p] = store[p] /\ (p[1] = "local" => p[2] < Depth)
        BY DEF LocalsGone
      <3>2. ValueOK(store[p]) /\ PlaceOK(p, class, Depth)
        BY <2>1, <3>1 DEF StoreOK
      <3>3. p[1] = "local" /\ p[2] \in 1 .. Depth => p[2] \in 1 .. Depth - 1
        BY <1>1, <3>1
      <3> QED
        BY <3>1, <3>2, <3>3 DEF PlaceOK
    <2> QED
      BY <2>1, <2>2 DEF StoreOK
  <1>5. ClassOK(class') /\ StoreOK(store', class', Depth - 1)
    <2>1. CASE wanted
      <3>1. PlaceOK(place, class, Depth - 1)
        BY <1>1, <2>1 DEF PlaceOK, Local
      <3>2. Settle(Over(LocalsGone, Values(got, place)), live)
        BY <2>1 DEF End
      <3>3. ClassOK(live) /\ StoreOK(Over(LocalsGone, Values(got, place)), live, Depth - 1)
        BY <1>4, <3>1, KeptOK
      <3> QED
        BY <3>2, <3>3, SettleOK
    <2>2. CASE ~wanted
      <3>1. Settle(Over(LocalsGone, got.values), live)
        BY <2>2 DEF End
      <3>2. /\ ClassOK(live) /\ StoreOK(got.values, live, Depth - 1)
            /\ \A p : PlaceOK(p, class, Depth - 1) => PlaceOK(p, live, Depth - 1)
        BY <1>4, LiveOK
      <3> HIDE DEF live
      <3>3. StoreOK(LocalsGone, live, Depth - 1)
        BY <1>4, <3>2 DEF StoreOK
      <3>4. StoreOK(Over(LocalsGone, got.values), live, Depth - 1)
        BY <3>2, <3>3, OverOK
      <3> QED
        BY <3>1, <3>2, <3>4, SettleOK
    <2> QED
      BY <2>1, <2>2
  <1>6. current' \in DOMAIN spaces
    <2>1. current' = frames[Depth].back /\ FrameOK(frames[Depth])
      BY <1>1, <1>2 DEF End
    <2> QED
      BY <2>1 DEF FrameOK
  <1>7. running' \in {"main", "finished"} /\ (running' = "main" => Depth # 1)
    BY DEF End
  <1> QED
    BY <1>1, <1>3, <1>5, <1>6, <1>7 DEF NextOK, RunOK

(* an assignment,                                                          *)
LEMMA AssignOK ==
    ASSUME TreeOK, ObjectsInv, NowOK, NEW left, NEW right, Assign(left, right)
    PROVE  NextOK
  <1> DEFINE l == Resolve(left)
             r == IF right.kind = "literal" THEN [how |-> "literal"] ELSE Resolve(right)
             got == IF r.how = "place" THEN Assigned(store[l.place], store[r.place])
                    ELSE IF r.how = "class" \/ store[l.place].type \notin Pointers
                    THEN Ended("aborted") ELSE Ended("undefined")
  <1>1. RefsLive(store, class) /\ StoreOK(store, class, Len(frames))
    BY DEF ObjectsInv, SharedLives, RefsLive, NowOK, RunOK
  <1>2. l.how = "place" => l.place \in DOMAIN store
    BY ResolvedPlace
  <1>3. r.how = "place" => r.place \in DOMAIN store
    BY ResolvedPlace
  <1>4. l.how = "place" => Outcome(got)
    <2>1. CASE l.how = "place" /\ r.how = "place"
      <3>1. store[l.place].type \in {"literal", "null"} \cup Pointers
        BY <1>1, <1>2, <2>1 DEF StoreOK, ValueOK
      <3> QED
        BY <1>1, <1>3, <2>1, <3>1, AssignedOutcome
    <2>2. CASE r.how # "place"
      BY <2>2 DEF Outcome, Ended, Stops
    <2> QED
      BY <2>1, <2>2
  <1>5. /\ l.how \in Hows
        /\ r.how \in Hows \cup {"literal"}
    BY ResolveHow
  <1>6. \/ l.how \notin {"place", "class"} /\ Fail(l.how)
        \/ r.how \notin {"place", "class", "literal"} /\ Fail(r.how)
        \/ \E how \in Stops \cup {"freed"} : Fail(how)
        \/ UNCHANGED allRunVars
        \/ l.how = "place" /\ got.how # "ok" /\ Fail(got.how)
        \/ /\ l.how = "place" /\ got.how = "ok" /\ Settled(got, l.place)
           /\ UNCHANGED <<current, frames, running>>
    BY <1>5 DEF Assign, Stops, Hows
  <1> HIDE DEF l, r, got
  <1>7. CASE \E how \in Stops \cup {"freed"} : Fail(how)
    BY <1>7, FailOK
  <1>8. CASE UNCHANGED allRunVars
    BY <1>8 DEF NowOK, NextOK, allRunVars, runVars
  <1>9. CASE /\ l.how = "place" /\ got.how = "ok" /\ Settled(got, l.place)
             /\ UNCHANGED <<current, frames, running>>
    <2>1. PlaceOK(l.place, class, Len(frames))
      BY <1>1, <1>2, <1>9 DEF StoreOK
    <2>2. GotOK(got) /\ Sound(got)
      BY <1>4, <1>9 DEF Outcome
    <2> QED
      BY <1>9, <2>1, <2>2, SettledOK
  <1>10. CASE l.how = "place" /\ got.how # "ok" /\ Fail(got.how)
    BY <1>4, <1>7, <1>10 DEF Outcome
  <1> QED
    BY <1>5, <1>6, <1>7, <1>8, <1>9, <1>10 DEF Hows, Stops

(* and every step of a program.                                            *)
LEMMA TypeStep ==
    ASSUME TreeOK, ObjectsInv, FramesInv, NowOK, [RunNext]_allRunVars
    PROVE  NextOK
  <1>1. RefsLive(store, class)
    BY DEF ObjectsInv, SharedLives, RefsLive
  <1> PICK S : frames \in Seq(S)
    BY DEF FramesInv
  <1>2. CASE UNCHANGED runVars
    BY <1>2 DEF NowOK, NextOK, runVars
  <1>3. CASE EnterSpace
    <2>1. PICK k \in DOMAIN varDecls : current' = k[1]
      BY <1>3 DEF EnterSpace, NextPending, Pending
    <2>2. current' \in DOMAIN spaces
      BY <2>1 DEF TreeOK
    <2> QED
      BY <1>3, <2>2 DEF EnterSpace, NowOK, NextOK, RunOK
  <1>4. CASE InitGlobal
    <2>1. PICK k \in NextPending :
              \E got \in Declared(varDecls[k], TRUE) :
                  IF got.how # "ok" THEN Fail(got.how)
                  ELSE /\ Settled(got, Global(k[1], k[2]))
                       /\ UNCHANGED <<treeVars, current, frames, running>>
      BY <1>4 DEF InitGlobal
    <2>2. PICK got \in Declared(varDecls[k], TRUE) :
              IF got.how # "ok" THEN Fail(got.how)
              ELSE /\ Settled(got, Global(k[1], k[2]))
                   /\ UNCHANGED <<treeVars, current, frames, running>>
      BY <2>1
    <2>3. k \in DOMAIN varDecls /\ k = <<k[1], k[2]>> /\ varDecls[k].ref \in {"shared", "weak"}
      BY DEF NextPending, Pending, TreeOK
    <2>4. PlaceOK(Global(k[1], k[2]), class, Len(frames))
      BY <2>3 DEF PlaceOK, Global
    <2>5. Outcome(got)
      BY <2>3, DeclaredOutcome
    <2> QED
      BY <2>2, <2>4, <2>5, FailOK, SettledOK DEF Outcome
  <1>5. CASE StartMain
    <2>1. CASE Fail("stopped")
      BY <2>1, FailOK DEF Stops
    <2>2. CASE ~Fail("stopped")
      <3> DEFINE main == funcs[<<Top, "main">>]
                 frame == [back |-> Top, args |-> <<>>, params |-> main.params]
      <3>1. /\ <<Top, "main">> \in DOMAIN funcs /\ running' = "main"
            /\ current' = main.space /\ frames' = <<frame>> /\ UNCHANGED <<store, class>>
        BY <1>5, <2>2 DEF StartMain
      <3>2. main.space \in DOMAIN spaces /\ FrameOK(frame)
        BY <3>1 DEF TreeOK, FrameOK
      <3> HIDE DEF main, frame
      <3>3. Len(frames') = 1 /\ frames'[1] = frame
        BY <3>1
      <3>4. Len(frames) = 0 /\ StoreOK(store, class, Len(frames))
        BY <1>5 DEF StartMain, NowOK, RunOK
      <3>5. \A i \in 1 .. 1 : FrameOK(frames'[i])
        BY <3>2, <3>3
      <3>6. StoreOK(store, class, 1)
        <4>1. \A p : PlaceOK(p, class, 0) => PlaceOK(p, class, 1)
          BY DEF PlaceOK
        <4> QED
          BY <3>4, <4>1 DEF StoreOK
      <3> QED
        BY <3>1, <3>2, <3>3, <3>5, <3>6 DEF NowOK, NextOK, RunOK
    <2> QED
      BY <2>1, <2>2
  <1>6. ASSUME NEW s \in Statements, Execute(s)
        PROVE  NextOK
    <2>1. CASE s.kind = "var" /\ Declare(s.name, s.decl)
      <3>1. PICK got \in Declared(s.decl, FALSE) :
                IF got.how # "ok" THEN Fail(got.how)
                ELSE \/ Fail("stopped")
                     \/ /\ Settled(got, Local(Depth, s.name))
                        /\ UNCHANGED <<treeVars, current, frames, running>>
        BY <2>1 DEF Declare
      <3>2. running = "main" /\ Depth \in Nat \ {0} /\ Depth = Len(frames)
        BY <2>1 DEF Declare, AtStatement, NowOK, RunOK, Depth
      <3>3. PlaceOK(Local(Depth, s.name), class, Len(frames))
        BY <3>2 DEF PlaceOK, Local
      <3>4. s.decl.ref \in {"shared", "weak"}
        BY <2>1, StatementsAssumption
      <3>5. Outcome(got)
        BY <3>4, DeclaredOutcome
      <3>6. CASE got.how = "ok" /\ ~Fail("stopped")
        BY <3>1, <3>3, <3>5, <3>6, SettledOK DEF Outcome
      <3>7. CASE Fail("stopped")
        BY <3>7, FailOK DEF Stops
      <3>8. CASE got.how # "ok"
        BY <3>1, <3>5, <3>8, FailOK DEF Outcome
      <3> QED
        BY <3>6, <3>7, <3>8
    <2>2. CASE Assign(s.left, s.right)
      BY <2>2, AssignOK
    <2>3. CASE Call(s)
      BY <2>3, EnterOK DEF Call, AtStatement
    <2>4. CASE Return(s.value)
      <3> DEFINE found == Resolve(s.value)
      <3>1. running = "main"
        BY <2>4 DEF Return, AtStatement
      <3>2. \/ UNCHANGED allRunVars
            \/ Fail("undefined")
            \/ found.how \notin {"place", "class"} /\ Fail(found.how)
            \/ /\ found.how = "class"
               /\ \E got \in Creations(found.space, FALSE) :
                     IF got.how = "ok" THEN End(got) ELSE Fail(got.how)
        BY <2>4 DEF Return
      <3>3. found.how \in Hows /\ (found.how = "class" => found.space \in DOMAIN spaces)
        BY ResolveHow, ResolvedClass
      <3> HIDE DEF found
      <3>4. CASE UNCHANGED allRunVars
        BY <1>2, <3>4 DEF allRunVars
      <3>5. CASE Fail("undefined")
        BY <3>5, FailOK DEF Stops
      <3>6. CASE found.how \notin {"place", "class"} /\ Fail(found.how)
        BY <3>3, <3>6, FailOK DEF Hows, Stops
      <3>7. ASSUME found.how = "class", NEW got \in Creations(found.space, FALSE),
                   IF got.how = "ok" THEN End(got) ELSE Fail(got.how)
            PROVE  NextOK
        <4>1. Outcome(got)
          BY <3>3, <3>7, CreationOutcome
        <4> QED
          BY <3>1, <3>7, <4>1, EndOK, FailOK DEF Outcome
      <3> QED
        BY <3>2, <3>4, <3>5, <3>6, <3>7
    <2> QED
      BY <1>6, <2>1, <2>2, <2>3, <2>4 DEF Execute
  <1>7. CASE PassArgument
    <2>1. running = "main"
      BY <1>7 DEF PassArgument
    <2>2. \/ Enter(Head(frames[Depth].args))
          \/ \E got \in Argument : IF got.how = "ok" THEN Bind(got) ELSE Fail(got.how)
      BY <1>7 DEF PassArgument
    <2>3. ASSUME NEW got \in Argument, IF got.how = "ok" THEN Bind(got) ELSE Fail(got.how)
          PROVE  NextOK
      <3>1. StoreOK(store, class, Depth)
        BY DEF NowOK, RunOK, Depth
      <3>2. Outcome(got)
        BY <1>1, <3>1, ArgumentOutcome
      <3> QED
        BY <2>1, <2>3, <3>2, BindOK, FailOK DEF Outcome
    <2> QED
      BY <2>1, <2>2, <2>3, EnterOK
  <1>8. CASE EndCall
    <2>1. Outcome(Got(NullValue, <<>>, <<>>))
      BY PlainOutcome DEF NullValue, ValueOK
    <2>2. GotOK(Got(NullValue, <<>>, <<>>)) /\ Sound(Got(NullValue, <<>>, <<>>))
      BY <2>1 DEF Outcome, Got
    <2> QED
      BY <1>8, <2>2, EndOK DEF EndCall, AtStatement
  <1>9. CASE StrayCopy
    BY <1>9, FailOK DEF StrayCopy, Stops
  <1>10. CASE UNCHANGED allRunVars
    BY <1>2, <1>10 DEF allRunVars
  <1> QED
    BY <1>3, <1>4, <1>5, <1>6, <1>7, <1>8, <1>9, <1>10 DEF RunNext

\* The inductive invariant: the types, the objects that are shared and the
\* calls in progress.
TypeInv == TreeOK /\ ObjectsInv /\ FramesInv /\ NowOK

(* A run begins with an empty store.                                       *)
LEMMA TypeInit ==
    ASSUME RunInit, TreeOK
    PROVE  TypeInv
  <1>1. ObjectsInv
    BY DEF RunInit, ObjectsInv, SharedLives, MembersLive
  <1>2. <<>> \in Seq({})
    OBVIOUS
  <1>3. FramesInv
    BY <1>2 DEF RunInit, FramesInv
  <1>4. NowOK
    BY DEF RunInit, TreeOK, NowOK, RunOK, ClassOK, StoreOK, Stops
  <1> QED
    BY <1>1, <1>3, <1>4 DEF TypeInv

(* No step of the runtime changes the tree that the parser has left.       *)
LEMMA TreeKept ==
    ASSUME [RunNext]_allRunVars
    PROVE  UNCHANGED treeVars
  BY DEF RunNext, EnterSpace, InitGlobal, StartMain, Execute, Declare, Assign, Call, Return,
         PassArgument, EndCall, StrayCopy, End, Bind, Enter, Fail, allRunVars

(* The types hold in every reachable state of a run.                       *)
LEMMA TypeInductive ==
    ASSUME TypeInv, [RunNext]_allRunVars
    PROVE  TypeInv'
  <1> USE DEF TypeInv
  <1>1. UNCHANGED treeVars
    BY TreeKept
  <1>2. TreeOK'
    BY <1>1 DEF TreeOK, treeVars
  <1>3. NextOK
    BY TypeStep
  <1>4. NowOK'
    BY <1>1, <1>3
       DEF NextOK, NowOK, RunOK, ClassOK, StoreOK, ValueOK, PlaceOK, MemberOK, FrameOK, treeVars
  <1> QED
    BY <1>2, <1>4, ObjectsStep, FramesStep

(* Whatever the program is, every value is at a place that exists: the     *)
(* members are those that the class of their object declares, the local    *)
(* variables are of calls in progress (the ends of calls take theirs with  *)
(* them), and the current namespace, which calls change and restore, is in *)
(* the tree.  The tree is any that the parser may leave.                   *)
THEOREM RunTypeCorrect == RunSpec /\ TreeOK => []RunTypeOK
  <1>1. RunInit /\ TreeOK => TypeInv
    BY TypeInit
  <1>2. TypeInv /\ [RunNext]_allRunVars => TypeInv'
    BY TypeInductive
  <1>3. TypeInv => RunTypeOK
    BY DEF TypeInv, NowOK, RunOK, RunTypeOK, ClassOK, StoreOK, ValueOK, PlaceOK, MemberOK, Stops
  <1> QED
    BY <1>1, <1>2, <1>3, PTL DEF RunSpec

-----------------------------------------------------------------------------
(* What an assignment frees.  An object that dies when a value of its own  *)
(* member is replaced has been kept, at last, by that value only: what it  *)
(* keeps leads back to it.                                                 *)
LEMMA OwnMemberCycle ==
    ASSUME ObjectsInv, ClassOK(class), NEW p \in DOMAIN store, p[1] = "member",
           NEW value, p[2] \in Dying(Placed(Got(value, <<>>, <<>>), p), DOMAIN class)
    PROVE  p[2] \in Objects /\ InCycle(p[2])
  <1> DEFINE o == p[2]
             st == Placed(Got(value, <<>>, <<>>), p)
  <1>1. o \in DOMAIN class /\ DOMAIN class \subseteq Objects
    BY DEF ObjectsInv, MembersLive, ClassOK
  <1>2. ASSUME NEW q \in DOMAIN store, q # p
        PROVE  q \in DOMAIN st /\ st[q] = store[q]
    BY <1>2 DEF Placed, Values, Over, Got
  <1>3. ASSUME NEW S \in Kept(o)
        PROVE  o \in S
    <2> DEFINE gone == S \cap DOMAIN class
    <2>1. \A x \in Objects : Keeps(o, x) \/ (\E y \in S : Keeps(y, x)) => x \in S
      BY DEF Kept
    <2>2. ASSUME NEW z \in DOMAIN class \ gone
          PROVE  z \in SharedOutside(st, gone)
      <3>1. PICK q \in DOMAIN store : store[q].type = "shared" /\ store[q].obj = z
        BY DEF ObjectsInv, SharedLives
      <3>2. z \in Objects /\ z \notin S
        BY <1>1
      <3>3. q # p
        BY <2>1, <3>1, <3>2 DEF Keeps
      <3>4. q[1] = "member" => q[2] \notin gone
        BY <2>1, <3>1, <3>2 DEF Keeps
      <3>5. q \in DOMAIN st /\ st[q] = store[q]
        BY <1>2, <3>3
      <3> HIDE DEF st, gone
      <3> QED
        BY <3>1, <3>4, <3>5 DEF SharedOutside
    <2> HIDE DEF st
    <2>3. DOMAIN class \ gone \subseteq SharedOutside(st, gone)
      BY <2>2
    <2>4. Dying(st, DOMAIN class) \subseteq gone
      BY <2>3, DyingInside
    <2> QED
      BY <2>4 DEF st
  <1> QED
    BY <1>1, <1>3 DEF InCycle

(* An initialisation goes on, or ends in one of the ways to stop.          *)
LEMMA InitStops ==
    ASSUME TreeOK, InitGlobal
    PROVE  running' = running \/ \E how \in Stops : Fail(how)
  <1>1. PICK k \in NextPending :
            \E got \in Declared(varDecls[k], TRUE) :
                IF got.how # "ok" THEN Fail(got.how) ELSE running' = running
    BY DEF InitGlobal
  <1>2. PICK got \in Declared(varDecls[k], TRUE) :
            IF got.how # "ok" THEN Fail(got.how) ELSE running' = running
    BY <1>1
  <1>3. k \in DOMAIN varDecls /\ varDecls[k].ref \in {"shared", "weak"}
    BY DEF NextPending, Pending, TreeOK
  <1>4. Outcome(got)
    BY <1>3, DeclaredOutcome
  <1> QED
    BY <1>2, <1>4 DEF Outcome

(* Only an assignment frees what is in use.                                *)
LEMMA FreedByAssign ==
    ASSUME TreeOK, ObjectsInv, NowOK, RunNext, running' = "freed"
    PROVE  \E left, right : Assign(left, right)
  <1>1. RefsLive(store, class) /\ StoreOK(store, class, Depth)
    BY DEF ObjectsInv, SharedLives, RefsLive, NowOK, RunOK, Depth
  <1>2. ASSUME NEW how \in Stops
        PROVE  ~Fail(how)
    BY DEF Fail, Stops
  <1>3. ~EnterSpace
    BY DEF EnterSpace
  <1>4. ~InitGlobal
    BY <1>2, InitStops DEF InitGlobal
  <1>5. ~StartMain
    BY <1>2 DEF StartMain, Stops
  <1>6. ASSUME NEW call, Enter(call), running = "main"
        PROVE  FALSE
    BY <1>2, <1>6 DEF Enter, Stops
  <1>7. ASSUME NEW space \in DOMAIN spaces, NEW got \in Creations(space, FALSE), Fail(got.how),
               got.how # "ok"
        PROVE  FALSE
    BY <1>2, <1>7, CreationOutcome DEF Outcome
  <1>8. ASSUME NEW got, End(got), running = "main"
        PROVE  FALSE
    BY <1>8 DEF End
  <1>9. ~PassArgument
    <2> SUFFICES ASSUME PassArgument PROVE FALSE
      OBVIOUS
    <2>1. running = "main"
      BY DEF PassArgument
    <2>2. PICK got \in Argument : IF got.how = "ok" THEN Bind(got) ELSE Fail(got.how)
      BY <1>6, <2>1 DEF PassArgument
    <2>3. Outcome(got)
      BY <1>1, ArgumentOutcome
    <2> QED
      BY <1>2, <2>1, <2>2, <2>3 DEF Outcome, Bind
  <1>10. ~EndCall
    BY <1>8 DEF EndCall, AtStatement
  <1>11. ~StrayCopy
    BY <1>2 DEF StrayCopy, Stops
  <1>12. PICK s \in Statements : Execute(s)
    BY <1>3, <1>4, <1>5, <1>9, <1>10, <1>11 DEF RunNext
  <1>13. ~(s.kind = "var" /\ Declare(s.name, s.decl))
    <2> SUFFICES ASSUME s.kind = "var", Declare(s.name, s.decl) PROVE FALSE
      OBVIOUS
    <2>1. PICK got \in Declared(s.decl, FALSE) :
              IF got.how # "ok" THEN Fail(got.how) ELSE Fail("stopped") \/ running' = running
      BY DEF Declare
    <2>2. s.decl.ref \in {"shared", "weak"}
      BY StatementsAssumption
    <2>3. Outcome(got)
      BY <2>2, DeclaredOutcome
    <2> QED
      BY <1>2, <2>1, <2>3 DEF Declare, AtStatement, Outcome, Stops
  <1>14. ~Call(s)
    BY <1>6 DEF Call, AtStatement
  <1>15. ~Return(s.value)
    <2> DEFINE found == Resolve(s.value)
    <2> SUFFICES ASSUME Return(s.value) PROVE FALSE
      OBVIOUS
    <2>1. running = "main"
      BY DEF Return, AtStatement
    <2>2. \/ UNCHANGED allRunVars
          \/ Fail("undefined")
          \/ found.how \notin {"place", "class"} /\ Fail(found.how)
          \/ /\ found.how = "class"
             /\ \E got \in Creations(found.space, FALSE) :
                   IF got.how = "ok" THEN End(got) ELSE Fail(got.how)
      BY DEF Return
    <2>3. found.how \in Hows /\ (found.how = "class" => found.space \in DOMAIN spaces)
      BY ResolveHow, ResolvedClass
    <2> HIDE DEF found
    <2>4. ~UNCHANGED allRunVars
      BY <2>1 DEF allRunVars, runVars
    <2>5. ~Fail("undefined") /\ ~(found.how \notin {"place", "class"} /\ Fail(found.how))
      BY <1>2, <2>3 DEF Stops, Hows
    <2> QED
      BY <1>7, <1>8, <2>1, <2>2, <2>3, <2>4, <2>5
  <1> QED
    BY <1>12, <1>13, <1>14, <1>15 DEF Execute

(* When it does, an object is in a cycle of shared references.             *)
LEMMA FreedStep ==
    ASSUME TreeOK, ObjectsInv, NowOK, RunNext, running' = "freed"
    PROVE  \E o \in Objects : InCycle(o)
  <1> PICK left, right : Assign(left, right)
    BY FreedByAssign
  <1> DEFINE l == Resolve(left)
             r == IF right.kind = "literal" THEN [how |-> "literal"] ELSE Resolve(right)
             got == IF r.how = "place" THEN Assigned(store[l.place], store[r.place])
                    ELSE IF r.how = "class" \/ store[l.place].type \notin Pointers
                    THEN Ended("aborted") ELSE Ended("undefined")
  <1>1. ASSUME NEW how \in Stops
        PROVE  ~Fail(how)
    BY DEF Fail, Stops
  <1>2. RefsLive(store, class) /\ StoreOK(store, class, Len(frames)) /\ ClassOK(class)
    BY DEF ObjectsInv, SharedLives, RefsLive, NowOK, RunOK
  <1>3. running = "main"
    BY DEF Assign, AtStatement
  <1>4. l.how \in Hows /\ r.how \in Hows \cup {"literal"}
    BY ResolveHow
  <1>5. \/ l.how \notin {"place", "class"} /\ Fail(l.how)
        \/ r.how \notin {"place", "class", "literal"} /\ Fail(r.how)
        \/ \E how \in Stops : Fail(how)
        \/ running' = running
        \/ l.how = "place" /\ got.how # "ok" /\ Fail(got.how)
        \/ /\ l.how = "place" /\ got.how = "ok"
           /\ l.place[1] = "member" /\ l.place[2] \in Frees(got, l.place)
    BY <1>4 DEF Assign, Stops, Hows, allRunVars, runVars
  <1>6. l.how = "place" => l.place \in DOMAIN store
    BY ResolvedPlace
  <1>7. got.how # "ok" => got.how \in Stops
    BY DEF Assigned, Ended, Got, Stops
  <1>8. got.how = "ok" => \E value : got = Got(value, <<>>, <<>>)
    BY DEF Assigned, Ended
  <1> HIDE DEF l, r, got
  <1>9. /\ l.how = "place" /\ got.how = "ok"
        /\ l.place[1] = "member" /\ l.place[2] \in Frees(got, l.place)
    BY <1>1, <1>3, <1>4, <1>5, <1>7 DEF Hows, Stops
  <1>10. PICK value : got = Got(value, <<>>, <<>>)
    BY <1>8, <1>9
  <1> QED
    BY <1>2, <1>6, <1>9, <1>10, OwnMemberCycle DEF Frees

(* Whatever the program, an assignment that frees the object whose member  *)
(* it is about to set (AssignmentStatement uses left again afterwards)     *)
(* does so only where members of objects keep one another in a cycle.      *)
THEOREM FreedOnlyInCycle == RunSpec /\ TreeOK => FreedNeedsCycle
  <1>1. RunInit /\ TreeOK => TypeInv
    BY TypeInit
  <1>2. TypeInv /\ [RunNext]_allRunVars => TypeInv'
    BY TypeInductive
  <1>3. TypeInv /\ [RunNext]_allRunVars =>
            [running' = "freed" => \E o \in Objects : InCycle(o)]_runVars
    BY FreedStep DEF TypeInv, allRunVars
  <1> QED
    BY <1>1, <1>2, <1>3, PTL DEF RunSpec, FreedNeedsCycle

-----------------------------------------------------------------------------
(* The order of initialisation.  A space is around another one when its    *)
(* path is the beginning of the other's.                                   *)
LEMMA SpacesAround ==
    ASSUME NEW S, NEW space \in Seq(S), NEW n \in 0 .. Len(space)
    PROVE  IsPrefix(SubSeq(space, 1, n), space)
  <1> DEFINE s == SubSeq(space, 1, n)
             t == SubSeq(s, 1, n)
  <1>1. \A i \in 1 .. n : i \in 1 .. Len(space) /\ space[i] \in S
    BY ElementOfSeq
  <1>2. s \in Seq(S) /\ Len(s) = n /\ \A i \in 1 .. n : s[i] = space[i]
    <2>1. /\ s \in Seq(S)
          /\ Len(s) = IF 1 <= n THEN n - 1 + 1 ELSE 0
          /\ \A i \in 1 .. n - 1 + 1 : s[i] = space[1 + i - 1]
      BY <1>1, SubSeqProperties
    <2> HIDE DEF s
    <2> QED
      BY <2>1
  <1> HIDE DEF s
  <1>3. t \in Seq(S) /\ Len(t) = n /\ \A i \in 1 .. n : t[i] = s[i]
    <2>1. \A i \in 1 .. n : s[i] \in S
      BY <1>1, <1>2
    <2>2. /\ t \in Seq(S)
          /\ Len(t) = IF 1 <= n THEN n - 1 + 1 ELSE 0
          /\ \A i \in 1 .. n - 1 + 1 : t[i] = s[1 + i - 1]
      BY <2>1, SubSeqProperties
    <2> HIDE DEF t
    <2> QED
      BY <2>2
  <1> HIDE DEF t
  <1>4. t = s
    BY <1>2, <1>3, SeqEqual
  <1>5. IsPrefix(s, space)
    BY <1>2, <1>4 DEF IsPrefix, t, s
  <1> QED
    BY <1>5 DEF s

\* A variable that is initialised before another, where its name is looked for.
EarlierRead(k, read) ==
    \E l \in DOMAIN varDecls :
        /\ l[2] = read.name /\ Before(l, k)
        /\ IsPrefix(l[1], k[1]) \/ l[1] = Named(k[1], read.spec)

InOrder(k) ==
    LET init == varDecls[k].init
    IN  /\ init.kind = "operator" /\ ~Typed(varDecls[k])
               => \A n \in DOMAIN init.reads :
                      init.reads[n].kind = "name" => EarlierRead(k, init.reads[n])
        /\ init.kind = "name" /\ store[Global(k[1], k[2])].type = "null"
               => EarlierRead(k, init)

OrderInv ==
    running = "init" =>
        \A k \in DOMAIN varDecls \ Pending : InOrder(k) /\ \A l \in Pending : Before(k, l)

\* The value of a name is that of a variable around, at the top, or in the
\* namespace named, and is there.
LEMMA FoundEarlier ==
    ASSUME TypeInv, OrderInv, running = "init", NEW k \in Pending, current = k[1],
           NEW read, NEW space, HasValue(space, read.name),
           IsPrefix(space, current) \/ space = Named(current, read.spec)
    PROVE  EarlierRead(k, read)
  <1> DEFINE l == <<space, read.name>>
  <1>1. l \in DOMAIN varDecls
    <2>1. PlaceOK(Global(space, read.name), class, Len(frames))
      BY DEF TypeInv, NowOK, RunOK, StoreOK, HasValue
    <2> QED
      BY <2>1 DEF PlaceOK, MemberOK, Global
  <1>2. l \notin Pending
    BY DEF Pending
  <1>3. Before(l, k)
    BY <1>1, <1>2 DEF OrderInv
  <1> QED
    BY <1>1, <1>3 DEF EarlierRead

(* A value that is read was found around the class or the namespace.       *)
LEMMA ValueAround ==
    ASSUME TypeInv, NEW spec, NEW name, FindValue(current, spec, name) # NoSpace
    PROVE  LET space == FindValue(current, spec, name)
           IN  HasValue(space, name) /\ (IsPrefix(space, current) \/ space = Named(current, spec))
  <1> DEFINE space == FindValue(current, spec, name)
  <1>1. HasValue(space, name) /\ space \in {Named(current, spec), Top}
    BY DEF FindValue, Find
  <1>2. IsPrefix(Top, current)
    <2>1. current \in Seq(STRING)
      BY DEF TypeInv, NowOK, RunOK, TreeOK
    <2>2. SubSeq(current, 1, 0) = <<>> /\ 0 \in 0 .. Len(current)
      BY <2>1
    <2> QED
      BY <2>1, <2>2, SpacesAround DEF Top
  <1> QED
    BY <1>1, <1>2

(* A global name is found where it is declared.                            *)
LEMMA GlobalNameFound ==
    ASSUME TypeInv, NEW spec, NEW name, GlobalNameOf(spec, name).how = "place"
    PROVE  \E space : /\ GlobalNameOf(spec, name).place = Global(space, name)
                      /\ HasValue(space, name)
                      /\ IsPrefix(space, current) \/ space = Named(current, spec)
  <1>1. current \in Seq(STRING)
    BY DEF TypeInv, NowOK, RunOK, TreeOK
  <1>2. CASE HasValue(current, name)
    <2>1. SubSeq(current, 1, Len(current)) = current /\ Len(current) \in 0 .. Len(current)
      BY <1>1
    <2>2. IsPrefix(current, current)
      BY <1>1, <2>1, SpacesAround
    <2> QED
      BY <1>2, <2>2 DEF GlobalNameOf, At
  <1>3. CASE ~HasValue(current, name) /\ <<current, name>> \in DOMAIN varDecls
    <2>1. GlobalNameOf(spec, name) = Further(spec, name)
      BY <1>3 DEF GlobalNameOf
    <2>2. /\ FindValue(current, spec, name) # NoSpace
          /\ Further(spec, name) = At(Global(FindValue(current, spec, name), name))
      BY <2>1 DEF Further, At
    <2> QED
      BY <2>1, <2>2, ValueAround DEF At
  <1>4. CASE ~HasValue(current, name) /\ <<current, name>> \notin DOMAIN varDecls
    <2> DEFINE levels == {n \in 0 .. Len(current) - 1 : HasValue(SubSeq(current, 1, n), name)}
               level == GreatestOr(levels, -1)
    <2>1. /\ Around(name) # NoSpace
          /\ GlobalNameOf(spec, name) = At(Global(Around(name), name))
      BY <1>4 DEF GlobalNameOf
    <2>2. level # -1 /\ Around(name) = SubSeq(current, 1, level)
      BY <2>1 DEF Around
    <2>3. level \in levels
      BY <2>2, Greatest
    <2>4. HasValue(Around(name), name) /\ level \in 0 .. Len(current)
      BY <1>1, <2>2, <2>3
    <2> HIDE DEF level
    <2>5. IsPrefix(Around(name), current)
      BY <1>1, <2>2, <2>4, SpacesAround
    <2> QED
      BY <2>1, <2>4, <2>5 DEF At
  <1> QED
    BY <1>2, <1>3, <1>4

\* A declaration that goes well has found what it looks for.
LEMMA ReadsFound ==
    ASSUME TypeInv, OrderInv, running = "init", NEW k \in Pending, current = k[1],
           varDecls[k].init.kind = "operator", ~Typed(varDecls[k]),
           Ends(varDecls[k], TRUE) = {}, NEW n \in DOMAIN varDecls[k].init.reads,
           varDecls[k].init.reads[n].kind = "name"
    PROVE  EarlierRead(k, varDecls[k].init.reads[n])
  <1> DEFINE decl == varDecls[k]
             init == decl.init
             read == init.reads[n]
             Bad(i) == ReadEnds(init.reads[i], TRUE)
             failing == {i \in DOMAIN init.reads : Bad(i) # {}}
             found == GlobalNameOf(read.spec, read.name)
  <1>1. failing = {}
    <2> SUFFICES ASSUME failing # {} PROVE FALSE
      OBVIOUS
    <2>1. Ends(decl, TRUE) = Bad(CHOOSE i \in failing : \A j \in failing : i <= j)
      BY DEF Ends
    <2>2. failing \in SUBSET Nat
      BY DEF Pending, TypeInv, TreeOK
    <2>3. \E i \in failing : \A j \in failing : i <= j
      <3> HIDE DEF failing
      <3> QED
        BY <2>2, Least
    <2>4. (CHOOSE i \in failing : \A j \in failing : i <= j) \in failing
      <3> HIDE DEF failing
      <3> QED
        BY <2>3
    <2> QED
      BY <2>1, <2>4
  <1>2. ReadEnds(read, TRUE) = {}
    BY <1>1
  <1>3. found.how = "place"
    <2>1. OperandEnds(read, TRUE) = {}
      BY <1>2 DEF ReadEnds
    <2> QED
      BY <2>1 DEF OperandEnds
  <1>4. PICK space : HasValue(space, read.name)
                     /\ (IsPrefix(space, current) \/ space = Named(current, read.spec))
    BY <1>3, GlobalNameFound
  <1> HIDE DEF read
  <1>5. EarlierRead(k, read)
    BY <1>4, FoundEarlier
  <1> QED
    BY <1>5 DEF read

(* An initialisation that succeeds has met nothing that ends it.           *)
LEMMA DeclaredWell ==
    ASSUME NEW decl, NEW isGlobal, NEW got \in Declared(decl, isGlobal), got.how = "ok"
    PROVE  Ends(decl, isGlobal) = {}
  BY EndsBadly DEF Declared, Ended

(* An object that is created is held by a shared reference.                *)
LEMMA CreationShared ==
    ASSUME NEW space, NEW isGlobal, NEW got \in Creations(space, isGlobal), got.how = "ok"
    PROVE  got.value.type = "shared"
  <1> DEFINE parts == Parts(space)
             names == {part.names : part \in parts}
             ends == UNION {Ends(varDecls[k], isGlobal) :
                                k \in UNION {Members(part.space) : part \in parts}}
             endless == \E part \in parts : ~(Below(part) \subseteq parts)
             failures == ends \cup (IF endless THEN {"undefined"} ELSE {})
  <1>1. "ok" \notin failures
    BY EndsBadly
  <1>2. Creations(space, isGlobal) =
            IF failures # {} THEN {Ended(how) : how \in failures}
            ELSE {Built(parts, address) : address \in Allocation(names)}
    BY DEF Creations
  <1> HIDE DEF failures
  <1>3. failures = {}
    BY <1>1, <1>2 DEF Ended
  <1>4. PICK address \in Allocation(names) : got = Built(parts, address)
    BY <1>2, <1>3
  <1> QED
    BY <1>4 DEF Built, Got, Shared

(* One from a name that gives a null has read a name that is known.        *)
LEMMA NullDeclared ==
    ASSUME NEW decl, NEW isGlobal, NEW got \in Declared(decl, isGlobal), got.how = "ok",
           got.value.type = "null", decl.init.kind = "name"
    PROVE  Known(decl.init)
  <1>1. Ends(decl, isGlobal) = {}
    BY DeclaredWell
  <1>2. MadeBy(decl) = NoSpace
    BY <1>1, CreationShared DEF Declared
  <1>3. got.value = ValueOf(decl)
    BY <1>1, <1>2 DEF Declared, Got
  <1>4. ~Typed(decl)
    BY <1>3 DEF ValueOf, Weak
  <1> QED
    BY <1>1, <1>2, <1>4 DEF Ends

(* That name is of a variable initialised before it.                       *)
LEMMA ValueFound ==
    ASSUME TypeInv, OrderInv, running = "init", NEW k \in Pending, current = k[1],
           varDecls[k].init.kind = "name",
           NEW got \in Declared(varDecls[k], TRUE), got.how = "ok", got.value.type = "null"
    PROVE  EarlierRead(k, varDecls[k].init)
  <1> DEFINE init == varDecls[k].init
  <1>1. Known(init)
    BY NullDeclared
  <1>2. FindValue(current, init.spec, init.name) # NoSpace
    BY <1>1 DEF Known
  <1> HIDE DEF init
  <1>3. EarlierRead(k, init)
    BY <1>2, ValueAround, FoundEarlier
  <1> QED
    BY <1>3 DEF init

\* A variable gets its value, and no other one changes.
LEMMA OneValue ==
    ASSUME ObjectsInv, NEW k, Global(k[1], k[2]) \notin DOMAIN store,
           NEW got, Sound(got), Settled(got, Global(k[1], k[2]))
    PROVE  /\ store'[Global(k[1], k[2])] = got.value
           /\ Global(k[1], k[2]) \in DOMAIN store'
           /\ \A space, name : <<space, name>> # <<k[1], k[2]>> =>
                  /\ Global(space, name) \in DOMAIN store' <=> Global(space, name) \in DOMAIN store
                  /\ Global(space, name) \in DOMAIN store =>
                         store'[Global(space, name)] = store[Global(space, name)]
  <1> DEFINE place == Global(k[1], k[2])
             st == Placed(got, place)
  <1>1. place[1] = "global" /\ \A space, name : Global(space, name)[1] = "global"
    BY DEF Global
  <1>2. \A p \in DOMAIN got.values : p[1] = "member"
    BY DEF Sound
  <1>3. \A space, name : <<space, name>> # <<k[1], k[2]>> => Global(space, name) # place
    BY DEF Global
  <1> HIDE DEF place
  <1>4. /\ place \in DOMAIN st /\ st[place] = got.value
        /\ \A p : p[1] = "global" /\ p # place =>
               /\ p \in DOMAIN st <=> p \in DOMAIN store
               /\ p \in DOMAIN store => st[p] = store[p]
    BY <1>1, <1>2 DEF Placed, Values, Over
  <1> HIDE DEF st
  <1>5. \A p : p[1] = "global" =>
            /\ p \in DOMAIN store' <=> p \in DOMAIN st
            /\ p \in DOMAIN st => store'[p] = st[p]
    BY DEF Settled, Settle, st, place
  <1> QED
    BY <1>1, <1>3, <1>4, <1>5 DEF place

(* Every initialisation keeps the order.                                   *)
LEMMA OrderStep ==
    ASSUME TypeInv, OrderInv, [RunNext]_allRunVars
    PROVE  OrderInv'
  <1> SUFFICES ASSUME running' = "init" PROVE OrderInv'
    BY DEF OrderInv
  <1>1. UNCHANGED varDecls
    BY TreeKept DEF treeVars
  <1>2. CASE UNCHANGED <<store, running>>
    BY <1>1, <1>2 DEF OrderInv, Pending, HasValue, InOrder, EarlierRead
  <1>3. CASE InitGlobal
    <2>1. running = "init"
      BY <1>3 DEF InitGlobal
    <2>2. PICK k \in NextPending :
              /\ current = k[1]
              /\ \E got \in Declared(varDecls[k], TRUE) :
                    IF got.how # "ok" THEN Fail(got.how) ELSE Settled(got, Global(k[1], k[2]))
      BY <1>3 DEF InitGlobal
    <2>3. PICK got \in Declared(varDecls[k], TRUE) :
              IF got.how # "ok" THEN Fail(got.how) ELSE Settled(got, Global(k[1], k[2]))
      BY <2>2
    <2>4. /\ k \in Pending /\ k \in DOMAIN varDecls /\ varDecls[k].ref \in {"shared", "weak"}
          /\ \A l \in Pending \ {k} : Before(k, l)
      BY DEF NextPending, Pending, TypeInv, TreeOK
    <2>5. Outcome(got)
      BY <2>4, DeclaredOutcome DEF TypeInv
    <2>6. got.how = "ok" /\ Sound(got) /\ Settled(got, Global(k[1], k[2]))
      BY <2>3, <2>5 DEF Fail, Outcome, Stops
    <2>7. Global(k[1], k[2]) \notin DOMAIN store
      BY <2>4 DEF Pending, HasValue
    <2>8. \A l \in DOMAIN varDecls : l = <<l[1], l[2]>>
      BY DEF TypeInv, TreeOK
    <2>9. /\ store'[Global(k[1], k[2])] = got.value
          /\ Global(k[1], k[2]) \in DOMAIN store'
          /\ \A l \in DOMAIN varDecls \ {k} :
                 /\ Global(l[1], l[2]) \in DOMAIN store' <=> Global(l[1], l[2]) \in DOMAIN store
                 /\ Global(l[1], l[2]) \in DOMAIN store =>
                        store'[Global(l[1], l[2])] = store[Global(l[1], l[2])]
      <3>1. ObjectsInv
        BY DEF TypeInv
      <3>2. \A l \in DOMAIN varDecls \ {k} : <<l[1], l[2]>> # <<k[1], k[2]>>
        BY <2>4, <2>8
      <3> QED
        BY <2>6, <2>7, <3>1, <3>2, OneValue
    <2>10. Pending' = Pending \ {k}
      BY <1>1, <2>4, <2>9 DEF Pending, HasValue
    <2>11. Ends(varDecls[k], TRUE) = {}
      BY <2>6, DeclaredWell
    <2>12. InOrder(k)'
      <3>1. varDecls[k].init.kind = "operator" /\ ~Typed(varDecls[k]) =>
                \A n \in DOMAIN varDecls[k].init.reads :
                    varDecls[k].init.reads[n].kind = "name" =>
                        EarlierRead(k, varDecls[k].init.reads[n])
        BY <2>1, <2>2, <2>4, <2>11, ReadsFound
      <3>2. varDecls[k].init.kind = "name" /\ got.value.type = "null" =>
                EarlierRead(k, varDecls[k].init)
        BY <2>1, <2>2, <2>4, <2>6, ValueFound
      <3> QED
        BY <1>1, <2>9, <3>1, <3>2 DEF InOrder, EarlierRead
    <2>13. ASSUME NEW l \in DOMAIN varDecls \ Pending
           PROVE  InOrder(l)'
      <3>1. l # k /\ InOrder(l) /\ Global(l[1], l[2]) \in DOMAIN store
        BY <2>1, <2>4, <2>13 DEF OrderInv, Pending, HasValue
      <3>2. store'[Global(l[1], l[2])] = store[Global(l[1], l[2])]
        BY <2>9, <3>1
      <3> QED
        BY <1>1, <3>1, <3>2 DEF InOrder, EarlierRead
    <2> QED
      BY <1>1, <2>1, <2>4, <2>10, <2>12, <2>13 DEF OrderInv
  <1>4. CASE UNCHANGED allRunVars
    BY <1>2, <1>4 DEF allRunVars, runVars
  <1>5. running = "init"
    BY TypeStep DEF TypeInv, NextOK
  <1>6. RunNext => EnterSpace \/ InitGlobal \/ StartMain \/ StrayCopy
    BY <1>5 DEF RunNext, Execute, Declare, Assign, Call, Return, PassArgument, EndCall, AtStatement
  <1>7. ~StartMain /\ ~StrayCopy
    BY DEF StartMain, StrayCopy, Fail
  <1>8. CASE EnterSpace
    BY <1>2, <1>8 DEF EnterSpace
  <1> QED
    BY <1>3, <1>4, <1>6, <1>7, <1>8

(* When main starts every variable is in order.                            *)
LEMMA StartInOrder ==
    ASSUME TypeInv, OrderInv, RunNext, running = "init", running' = "main", NEW k \in DOMAIN varDecls
    PROVE  InOrder(k)
  <1>1. StartMain
    <2>1. EnterSpace \/ InitGlobal \/ StartMain \/ StrayCopy
      BY DEF RunNext, Execute, Declare, Assign, Call, Return, PassArgument, EndCall, AtStatement
    <2>2. ~InitGlobal
      BY InitStops DEF TypeInv, Stops, Fail
    <2>3. ~EnterSpace /\ ~StrayCopy
      BY DEF EnterSpace, StrayCopy, Fail
    <2> QED
      BY <2>1, <2>2, <2>3
  <1>2. Pending = {}
    BY <1>1 DEF StartMain
  <1> QED
    BY <1>2 DEF OrderInv

(* Whatever the program is, it gets to main only if every variable that an *)
(* initial value reads belongs to the namespace it names, one around it or *)
(* the top one, and was initialised before (initGlobalVariablesR).         *)
THEOREM InitialisedInOrder == RunSpec /\ TreeOK => MainInOrder
  <1> DEFINE Inv == TypeInv /\ OrderInv
             Ordered == running = "init" /\ running' = "main" => \A k \in DOMAIN varDecls : InOrder(k)
  <1>1. RunInit /\ TreeOK => Inv
    BY TypeInit DEF RunInit, OrderInv, Pending, HasValue
  <1>2. Inv /\ [RunNext]_allRunVars => Inv'
    BY TypeInductive, OrderStep
  <1>3. Inv /\ [RunNext]_allRunVars => [Ordered]_runVars
    BY StartInOrder DEF allRunVars
  <1> QED
    BY <1>1, <1>2, <1>3, PTL DEF RunSpec, MainInOrder, InOrder, EarlierRead
=============================================================================
