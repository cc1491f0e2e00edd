---------------------------- MODULE ToolsProofs ----------------------------
(***************************************************************************)
(* Theorems about the small programs, for any CPUs, any width of the       *)
(* counters and any number of loads, migrations and events.                *)
(***************************************************************************)
EXTENDS Tools, TLAPS

USE CountersAssumption, WrapAssumption, PmuBoundsAssumption, WorkAssumption

-----------------------------------------------------------------------------
(* The PMU module.                                                         *)

LEMMA Wraps == \A n \in Nat : /\ n % Wrap \in 0..(Wrap - 1)
                              /\ ((n % Wrap) + 1) % Wrap = (n + 1) % Wrap
<1> SUFFICES ASSUME NEW n \in Nat
             PROVE  /\ n % Wrap \in 0..(Wrap - 1)
                    /\ ((n % Wrap) + 1) % Wrap = (n + 1) % Wrap
  OBVIOUS
<1> DEFINE r == n % Wrap
           q == n \div Wrap
<1>1. n = Wrap * q + r
  OBVIOUS
<1>2. r \in 0..(Wrap - 1) /\ q \in Nat
  OBVIOUS
<1>3. \A k \in Nat, m \in 0..(Wrap - 1) : (Wrap * k + m) % Wrap = m
  OBVIOUS
<1>4. CASE r + 1 < Wrap
  <2>1. n + 1 = Wrap * q + (r + 1)
    BY <1>1, <1>2
  <2> HIDE DEF r, q
  <2>2. r + 1 \in 0..(Wrap - 1)
    BY <1>2, <1>4
  <2>3. (Wrap * q + (r + 1)) % Wrap = r + 1
    BY <1>2, <1>3, <2>2
  <2>4. (Wrap * 0 + (r + 1)) % Wrap = r + 1 /\ Wrap * 0 + (r + 1) = r + 1
    BY <1>2, <1>3, <2>2
  <2>5. (n + 1) % Wrap = r + 1 /\ (r + 1) % Wrap = r + 1
    BY <2>1, <2>3, <2>4
  <2> QED BY <1>2, <2>5 DEF r
<1>5. CASE r + 1 = Wrap
  <2>1. n + 1 = Wrap * (q + 1) + 0
    BY <1>1, <1>2, <1>5
  <2>2. (n + 1) % Wrap = 0 /\ (r + 1) % Wrap = 0
    BY <1>2, <1>3, <1>5, <2>1
  <2> QED BY <1>2, <2>2
<1> QED BY <1>2, <1>4, <1>5

LEMMA LastCounter == /\ Last \in Counters /\ 0 \in Counters
                     /\ \A c \in Counters : c <= Last /\ c \in Nat
                     /\ \A c \in Counters : c # Last => c + 1 \in Counters
<1>1. \E c \in Counters : \A d \in Counters : d <= c
  <2>1. CASE Counters = 0..3
    BY <2>1
  <2>2. CASE Counters = 0..1
    BY <2>2
  <2> QED BY <2>1, <2>2
<1>2. Last \in Counters /\ \A d \in Counters : d <= Last
  BY <1>1, Zenon DEF Last
<1> QED BY <1>2

(* The value v may stand for what counter c has to show.                   *)
Between(lo, hi, v) == \E n \in lo..hi : v = n % Wrap
Covers(c, v) == Between(sure[c], maybe[c], v)
Programmed(c) == type[home][c] = c /\ c \in set[home] /\ Covers(c, cnt[home][c])
In(labels) == at.label \in labels

Programming == {"select", "type", "reset", "count"}
PmuTypes ==
    /\ at = At(at.label, at.c) /\ PmuTypeOK
    /\ sure \in [Counters -> Nat] /\ maybe \in [Counters -> Nat]
OnInv ==
    /\ ~Is("idle") => cpu = home
    /\ on \subseteq {home} /\ (In({"idle", "publish"}) => on = {})
    /\ In(Programming \union {"create", "loaded", "selectToRead", "value",
                             "reread", "disable"}) => home \in on
ProgramInv ==
    /\ In(Programming) => \A c \in Counters : c < at.c => Programmed(c)
    /\ In({"type", "reset", "count", "value"}) => select[home] = at.c
    /\ In({"reset", "count"}) => type[home][at.c] = at.c
    /\ Is("count") => Covers(at.c, cnt[home][at.c])
    /\ In({"create", "loaded", "selectToRead", "value"}) =>
          \A c \in Counters : Programmed(c)
    /\ In({"userenr", "read", "enable", "create"} \union Programming) => sure = Zeros
ValueInv ==
    /\ In({"selectToRead", "value"}) =>
          \A c \in Counters : c < at.c => Covers(c, value[c])
    /\ In({"reread", "disable", "publish"}) =>
          \A c \in Counters : Covers(c, value[c])
PmuInv == PmuTypes /\ (~excused => OnInv /\ ProgramInv /\ ValueInv)

LEMMA IsBoolean == \A x, S, v : (v = (x \in S)) => v \in BOOLEAN
  OBVIOUS

LEMMA PmuTypesStep == PmuTypes /\ PmuStep => PmuTypes'
<1> SUFFICES ASSUME PmuTypes, PmuStep PROVE PmuTypes'
  OBVIOUS
<1> USE DEF PmuTypes, PmuTypeOK, At, Goto, Is, ghosts, registers, Zeros
<1>0. /\ 0 \in Counters /\ \A c \in Counters : c # Last => c + 1 \in Counters
      /\ \A c \in Counters : c \in Nat
  BY LastCounter
<1>1. CASE Insmod
  BY <1>0, <1>1 DEF Insmod
<1>2. CASE WriteUserenr \/ ReadPmcr \/ EnablePmu
  <2>1. CASE WriteUserenr
    BY <1>0, <2>1 DEF WriteUserenr
  <2>2. CASE ReadPmcr
    <3>1. pmcr' \in BOOLEAN
      BY <2>2, IsBoolean DEF ReadPmcr
    <3>2. at' = At("enable", 0) /\ UNCHANGED <<cpu, registers, value, ghosts>>
      BY <2>2 DEF ReadPmcr
    <3> QED BY <1>0, <3>1, <3>2
  <2>3. CASE EnablePmu
    BY <1>0, <2>3 DEF EnablePmu
  <2> QED BY <1>2, <2>1, <2>2, <2>3
<1>3. CASE SelectToSet
  BY <1>0, <1>3 DEF SelectToSet
<1>4. CASE SetType
  BY <1>0, <1>4 DEF SetType
<1>5. CASE ResetCounter
  BY <1>0, <1>5 DEF ResetCounter
<1>6. CASE EnableCounter
  BY <1>0, <1>6 DEF EnableCounter
<1>7. CASE \E ok \in BOOLEAN : CreateEntry(ok)
  BY <1>0, <1>7 DEF CreateEntry
<1>8. CASE Rmmod
  <2>1. excused' \in BOOLEAN
    BY <1>8, Zenon DEF Rmmod
  <2>2. at' = At("selectToRead", 0) /\ cpu' \in Cpus
    BY <1>8 DEF Rmmod
  <2>3. UNCHANGED <<registers, pmcr, value, loads, moves, events, home, sure, maybe>>
    BY <1>8 DEF Rmmod
  <2> QED BY <1>0, <2>1, <2>2, <2>3
<1>9. CASE SelectToRead
  BY <1>0, <1>9 DEF SelectToRead
<1>10. CASE ReadValue
  BY <1>0, <1>10 DEF ReadValue
<1>11. CASE RereadPmcr \/ DisablePmu \/ RemoveEntry
  <2>1. CASE RereadPmcr
    <3>1. pmcr' \in BOOLEAN
      BY <2>1, IsBoolean DEF RereadPmcr
    <3>2. at' = At("disable", 0) /\ UNCHANGED <<cpu, registers, value, ghosts>>
      BY <2>1 DEF RereadPmcr
    <3> QED BY <1>0, <3>1, <3>2
  <2>2. CASE DisablePmu
    BY <1>0, <2>2 DEF DisablePmu
  <2>3. CASE RemoveEntry
    BY <1>0, <2>3 DEF RemoveEntry
  <2> QED BY <1>11, <2>1, <2>2, <2>3
<1>12. CASE Migrate
  BY <1>0, <1>12 DEF Migrate
<1>13. ASSUME NEW k \in Cpus, NEW e \in Counters, Happens(k, e)
       PROVE  PmuTypes'
  <2>1. cnt' \in [Cpus -> [Counters -> 0..(Wrap - 1)]]
    <3>1. \A n \in 0..(Wrap - 1) : (n + 1) % Wrap \in 0..(Wrap - 1)
      BY Wraps
    <3> QED BY <1>13, <3>1 DEF Happens
  <2>2. sure' \in [Counters -> Nat] /\ maybe' \in [Counters -> Nat]
        /\ events' \in 0..MaxEvents
    BY <1>13 DEF Happens
  <2>3. UNCHANGED <<at, cpu, on, select, type, set, pmcr, value, loads, moves,
                    home, excused>>
    BY <1>13 DEF Happens
  <2> QED BY <2>1, <2>2, <2>3
<1> QED BY <1>1, <1>2, <1>3, <1>4, <1>5, <1>6, <1>7, <1>8, <1>9, <1>10, <1>11,
           <1>12, <1>13 DEF PmuStep

LEMMA BetweenGrows ==
    ASSUME NEW lo \in Nat, NEW hi \in Nat, NEW v, Between(lo, hi, v)
    PROVE  /\ Between(lo, hi + 1, v)
           /\ Between(lo, hi + 1, (v + 1) % Wrap)
           /\ Between(lo + 1, hi + 1, (v + 1) % Wrap)
<1>1. PICK n \in lo..hi : v = n % Wrap
  BY DEF Between
<1>2. n \in lo..(hi + 1) /\ n + 1 \in lo..(hi + 1) /\ n + 1 \in (lo + 1)..(hi + 1)
      /\ n \in Nat
  OBVIOUS
<1>3. (v + 1) % Wrap = (n + 1) % Wrap
  BY <1>1, <1>2, Wraps
<1> QED BY <1>1, <1>2, <1>3 DEF Between

LEMMA ZeroBetween == \A hi \in Nat : Between(0, hi, 0)
<1>1. 0 % Wrap = 0
  OBVIOUS
<1> QED BY <1>1 DEF Between

LEMMA HappensKeeps ==
    ASSUME PmuInv, NEW k \in Cpus, NEW e \in Counters, Happens(k, e), ~excused'
    PROVE  OnInv' /\ ProgramInv' /\ ValueInv'
<1>1. /\ UNCHANGED <<at, cpu, on, select, type, set, value, home, excused>>
      /\ ~Is("idle")
      /\ cnt' = [cnt EXCEPT ![k] = [c \in Counters |->
                   IF k \in on /\ c \in set[k] /\ type[k][c] = e
                   THEN (cnt[k][c] + 1) % Wrap ELSE cnt[k][c]]]
      /\ maybe' = IF k = home THEN [maybe EXCEPT ![e] = @ + 1] ELSE maybe
      /\ sure' = IF k = home /\ Is("loaded") THEN [sure EXCEPT ![e] = @ + 1] ELSE sure
  BY DEF Happens
<1>2. /\ OnInv /\ ProgramInv /\ ValueInv /\ home \in Cpus
      /\ sure \in [Counters -> Nat] /\ maybe \in [Counters -> Nat]
      /\ cnt \in [Cpus -> [Counters -> 0..(Wrap - 1)]]
      /\ value \in [Counters -> 0..(Wrap - 1)] /\ at.c \in Counters
  BY <1>1 DEF PmuInv, PmuTypes, PmuTypeOK
<1>3. OnInv'
  BY <1>1, <1>2 DEF OnInv, In, Is
<1>4. ASSUME NEW c \in Counters, NEW v, ~Is("loaded"), Covers(c, v)
      PROVE  Between(sure'[c], maybe'[c], v)
  <2>1. sure' = sure /\ maybe'[c] \in {maybe[c], maybe[c] + 1}
    BY <1>1, <1>2, <1>4
  <2> QED BY <1>2, <1>4, <2>1, BetweenGrows DEF Covers
(* A counter of its own event on the CPU of insmod, enabled or not yet.    *)
<1>5. ASSUME NEW c \in Counters, type[home][c] = c, Covers(c, cnt[home][c]),
             Is("loaded") => home \in on /\ c \in set[home]
      PROVE  Between(sure'[c], maybe'[c], cnt'[home][c])
  <2>1. CASE k # home \/ e # c
    <3>1. sure'[c] = sure[c] /\ maybe'[c] = maybe[c] /\ cnt'[home][c] = cnt[home][c]
      BY <1>1, <1>2, <1>5, <2>1
    <3> QED BY <1>5, <3>1 DEF Covers
  <2>2. CASE k = home /\ e = c
    <3>1. maybe'[c] = maybe[c] + 1
      BY <1>1, <1>2, <2>2
    <3>2. CASE home \in on /\ c \in set[home]
      <4>1. cnt'[home][c] = (cnt[home][c] + 1) % Wrap
        BY <1>1, <1>2, <1>5, <2>2, <3>2
      <4>2. sure'[c] \in {sure[c], sure[c] + 1}
        BY <1>1, <1>2, <2>2
      <4> QED BY <1>2, <1>5, <3>1, <4>1, <4>2, BetweenGrows DEF Covers
    <3>3. CASE ~(home \in on /\ c \in set[home])
      <4>1. cnt'[home][c] = cnt[home][c] /\ sure'[c] = sure[c]
        BY <1>1, <1>2, <1>5, <2>2, <3>3
      <4> QED BY <1>2, <1>5, <3>1, <4>1, BetweenGrows DEF Covers
    <3> QED BY <3>2, <3>3
  <2> QED BY <2>1, <2>2
<1>6. \A c \in Counters : Programmed(c) /\ home \in on => Programmed(c)'
  BY <1>1, <1>5 DEF Programmed, Covers
<1>7. ProgramInv'
  <2>1. In(Programming) => \A c \in Counters : c < at.c => Programmed(c)'
    BY <1>2, <1>6 DEF ProgramInv, OnInv, In
  <2>2. In({"create", "loaded", "selectToRead", "value"}) =>
          \A c \in Counters : Programmed(c)'
    BY <1>2, <1>6 DEF ProgramInv, OnInv, In
  <2>3. Is("count") => Covers(at.c, cnt[home][at.c])'
    <3> SUFFICES ASSUME Is("count") PROVE Covers(at.c, cnt[home][at.c])'
      OBVIOUS
    <3>1. type[home][at.c] = at.c /\ Covers(at.c, cnt[home][at.c]) /\ ~Is("loaded")
      BY <1>2 DEF ProgramInv, In, Is
    <3> QED BY <1>1, <1>2, <1>5, <3>1 DEF Covers
  <2>4. In({"userenr", "read", "enable", "create"} \union Programming) => sure' = Zeros
    BY <1>1, <1>2 DEF ProgramInv, In, Is, Programming
  <2> QED BY <1>1, <1>2, <2>1, <2>2, <2>3, <2>4 DEF ProgramInv, In, Is, Programmed, Covers
<1>8. ValueInv'
  <2>1. In({"selectToRead", "value", "reread", "disable", "publish"}) => ~Is("loaded")
    BY DEF In, Is
  <2> QED BY <1>1, <1>2, <1>4, <2>1 DEF ValueInv, In, Covers
<1> QED BY <1>3, <1>7, <1>8

LEMMA PmuKeeps ==
    ASSUME PmuInv, PmuStep, ~excused'
    PROVE  OnInv' /\ ProgramInv' /\ ValueInv'
<1>0. /\ 0 \in Counters /\ Last \in Counters
      /\ \A c \in Counters : c <= Last /\ c \in Nat /\ (c # Last => c + 1 \in Counters)
  BY LastCounter
<1>t. /\ home \in Cpus /\ cpu \in Cpus /\ at = [label |-> at.label, c |-> at.c]
      /\ at.c \in Counters /\ on \in SUBSET Cpus
      /\ select \in [Cpus -> Counters] /\ set \in [Cpus -> SUBSET Counters]
      /\ type \in [Cpus -> [Counters -> Counters \union {NoEvent}]]
      /\ cnt \in [Cpus -> [Counters -> 0..(Wrap - 1)]]
      /\ value \in [Counters -> 0..(Wrap - 1)]
      /\ maybe \in [Counters -> Nat]
  BY DEF PmuInv, PmuTypes, PmuTypeOK, At
<1>o. /\ at.c \in Nat
      /\ \A c \in Counters : /\ c \in Nat
                             /\ c < at.c + 1 => c <= at.c
                             /\ c <= at.c => c < at.c \/ c = at.c
  <2>1. at.c \in Nat /\ \A c \in Counters : c \in Nat
    BY <1>0, <1>t
  <2> QED BY <2>1
<1>e. ASSUME ~excused PROVE OnInv /\ ProgramInv /\ ValueInv
  BY <1>e DEF PmuInv
<1> USE DEF OnInv, ProgramInv, ValueInv, In, Is, Goto, At, Programming, Programmed,
            Covers, ghosts, registers
<1>1. CASE Insmod
  <2>1. ~excused
    BY <1>1 DEF Insmod
  <2> QED BY <1>0, <1>t, <1>e, <1>1, <2>1 DEF Insmod, Zeros
<1>2. CASE WriteUserenr
  <2>1. ~excused
    BY <1>2 DEF WriteUserenr
  <2> QED BY <1>0, <1>t, <1>e, <1>2, <2>1 DEF WriteUserenr
<1>3. CASE ReadPmcr
  <2>1. ~excused
    BY <1>3 DEF ReadPmcr
  <2> QED BY <1>0, <1>t, <1>e, <1>3, <2>1 DEF ReadPmcr
<1>4. CASE EnablePmu
  <2>1. ~excused
    BY <1>4 DEF EnablePmu
  <2>2. /\ at.label = "enable" /\ at' = [label |-> "select", c |-> 0]
        /\ UNCHANGED <<cpu, select, type, cnt, set, value, home, sure, maybe>>
    BY <1>4 DEF EnablePmu
  <2>3. cpu = home /\ on' = {home}
    BY <1>e, <1>4, <2>1 DEF EnablePmu
  <2>4. OnInv'
    BY <2>2, <2>3
  <2>5. sure' = Zeros
    BY <1>e, <2>1, <2>2
  <2> QED BY <1>0, <2>2, <2>4, <2>5
<1>5. CASE SelectToSet
  <2>1. ~excused
    BY <1>5 DEF SelectToSet
  <2> QED BY <1>0, <1>t, <1>e, <1>5, <2>1 DEF SelectToSet
<1>6. CASE SetType
  <2>1. ~excused
    BY <1>6 DEF SetType
  <2> QED BY <1>0, <1>t, <1>e, <1>6, <2>1 DEF SetType
<1>7. CASE ResetCounter
  <2>1. ~excused
    BY <1>7 DEF ResetCounter
  <2> QED BY <1>0, <1>t, <1>e, <1>7, <2>1, ZeroBetween DEF ResetCounter, Zeros
<1>8. CASE EnableCounter
  <2>1. ~excused
    BY <1>8 DEF EnableCounter
  <2>2. /\ at.label = "count" /\ cpu = home
        /\ set' = [set EXCEPT ![home] = @ \union {at.c}]
        /\ UNCHANGED <<cpu, on, select, type, cnt, value, home, sure, maybe>>
    BY <1>t, <1>e, <1>8, <2>1 DEF EnableCounter
  <2>3. \A c \in Counters : c <= at.c => Programmed(c)'
    <3>1. ASSUME NEW c \in Counters, c < at.c PROVE Programmed(c)'
      <4>1. Programmed(c)
        BY <1>e, <2>1, <2>2, <3>1
      <4> QED BY <1>t, <2>2, <4>1
    <3>2. ASSUME NEW c \in Counters, c = at.c PROVE Programmed(c)'
      <4>1. type[home][c] = c /\ Covers(c, cnt[home][c])
        BY <1>e, <2>1, <2>2, <3>2
      <4>2. c \in set'[home]
        BY <1>t, <2>2, <3>2
      <4> QED BY <2>2, <4>1, <4>2
    <3> QED BY <1>o, <3>1, <3>2
  <2>4. CASE at.c = Last
    <3>1. at' = [label |-> "create", c |-> 0]
      BY <1>8, <2>4 DEF EnableCounter
    <3> QED BY <1>0, <1>t, <1>e, <2>1, <2>2, <2>3, <2>4, <3>1
  <2>5. CASE at.c # Last
    <3>1. at' = [label |-> "select", c |-> at.c + 1]
      BY <1>8, <2>5 DEF EnableCounter
    <3>3. OnInv'
      BY <1>e, <2>1, <2>2, <3>1
    <3>4. sure' = Zeros
      BY <1>e, <2>1, <2>2
    <3>5. \A c \in Counters : c < at'.c => Programmed(c)'
      <4> SUFFICES ASSUME NEW c \in Counters, c < at'.c PROVE Programmed(c)'
        OBVIOUS
      <4>1. c <= at.c
        <5>1. at'.c = at.c + 1
          BY <3>1
        <5>2. c < at.c + 1
          BY <5>1
        <5> QED BY <1>o, <5>2
      <4> QED BY <2>3, <4>1
    <3>6. at'.label = "select"
      BY <3>1
    <3> QED BY <3>3, <3>4, <3>5, <3>6
  <2> QED BY <2>4, <2>5
<1>9. CASE SelectToRead
  <2>1. ~excused
    BY <1>9 DEF SelectToRead
  <2> QED BY <1>0, <1>t, <1>e, <1>9, <2>1 DEF SelectToRead
<1>10. CASE ReadValue
  <2>1. ~excused
    BY <1>10 DEF ReadValue
  <2>2. /\ at.label = "value" /\ value' = [value EXCEPT ![at.c] = cnt[home][at.c]]
        /\ UNCHANGED <<cpu, on, select, type, cnt, set, home, sure, maybe>>
    BY <1>t, <1>e, <1>10, <2>1 DEF ReadValue
  <2>3. \A c \in Counters : c <= at.c => Covers(c, value[c])'
    BY <1>0, <1>t, <1>e, <2>1, <2>2
  <2>4. CASE at.c = Last
    <3>1. at' = [label |-> "reread", c |-> 0]
      BY <1>10, <2>4 DEF ReadValue
    <3> QED BY <1>0, <1>t, <1>e, <2>1, <2>2, <2>3, <2>4, <3>1
  <2>5. CASE at.c # Last
    <3>1. at' = [label |-> "selectToRead", c |-> at.c + 1]
      BY <1>10, <2>5 DEF ReadValue
    <3>2. \A c \in Counters : Programmed(c)'
      BY <1>e, <2>1, <2>2
    <3>4. OnInv'
      BY <1>e, <2>1, <2>2, <3>1
    <3>5. \A c \in Counters : c < at'.c => Covers(c, value[c])'
      <4> SUFFICES ASSUME NEW c \in Counters, c < at'.c PROVE Covers(c, value[c])'
        OBVIOUS
      <4>1. c <= at.c
        <5>1. at'.c = at.c + 1
          BY <3>1
        <5>2. c < at.c + 1
          BY <5>1
        <5> QED BY <1>o, <5>2
      <4> QED BY <2>3, <4>1
    <3>6. at'.label = "selectToRead"
      BY <3>1
    <3> QED BY <3>2, <3>4, <3>5, <3>6
  <2> QED BY <2>4, <2>5
<1>11. CASE RereadPmcr
  <2>1. ~excused
    BY <1>11 DEF RereadPmcr
  <2> QED BY <1>0, <1>t, <1>e, <1>11, <2>1 DEF RereadPmcr
<1>12. CASE DisablePmu
  <2>1. ~excused
    BY <1>12 DEF DisablePmu
  <2> QED BY <1>0, <1>t, <1>e, <1>12, <2>1 DEF DisablePmu
<1>13. CASE RemoveEntry
  <2>1. ~excused
    BY <1>13 DEF RemoveEntry
  <2> QED BY <1>0, <1>t, <1>e, <1>13, <2>1 DEF RemoveEntry
<1>14. ASSUME NEW ok \in BOOLEAN, CreateEntry(ok)
       PROVE  OnInv' /\ ProgramInv' /\ ValueInv'
  <2>1. ~excused /\ ok
    BY <1>14, Zenon DEF CreateEntry
  <2> QED BY <1>0, <1>t, <1>e, <1>14, <2>1 DEF CreateEntry
<1>15. CASE Rmmod
  <2>1. ~excused /\ cpu' = home
    BY <1>15, Zenon DEF Rmmod
  <2>2. /\ at.label = "loaded" /\ at' = [label |-> "selectToRead", c |-> 0]
        /\ UNCHANGED <<on, select, type, cnt, set, value, home, sure, maybe>>
    BY <1>15 DEF Rmmod
  <2>3. \A c \in Counters : Programmed(c) /\ Programmed(c)'
    BY <1>e, <2>1, <2>2
  <2>4. OnInv'
    BY <1>e, <2>1, <2>2
  <2> QED BY <1>0, <2>2, <2>3, <2>4
<1>16. CASE Migrate
  BY <1>16 DEF Migrate
<1>17. ASSUME NEW k \in Cpus, NEW e \in Counters, Happens(k, e)
       PROVE  OnInv' /\ ProgramInv' /\ ValueInv'
  BY <1>17, HappensKeeps
<1> QED BY <1>1, <1>2, <1>3, <1>4, <1>5, <1>6, <1>7, <1>8, <1>9, <1>10, <1>11, <1>12,
           <1>13, <1>14, <1>15, <1>16, <1>17 DEF PmuStep

-----------------------------------------------------------------------------
(* The programs that measure themselves.                                   *)

PerfInv ==
    /\ PerfTypeOK /\ count <= work /\ PrintedIsFinal
    /\ child \in {"reset", "enable"} => parent = "wait"
    /\ parent = "read" => ~enabled

LEMMA PerfSteps == PerfInv /\ PerfStep => PerfInv'
<1> SUFFICES ASSUME PerfInv, PerfStep PROVE PerfInv'
  OBVIOUS
<1> USE DEF PerfInv, PerfTypeOK, PrintedIsFinal
<1>1. ASSUME NEW ok \in BOOLEAN, Open(ok) \/ Fork(ok)
      PROVE  PerfInv'
  BY <1>1 DEF Open, Fork
<1>2. CASE ParentStarts \/ ChildStarts
  <2>1. CASE Reset(parent) /\ ParentStarts
    BY <2>1 DEF ParentStarts, Reset, Enable
  <2>2. CASE Enable(parent) /\ ParentStarts
    BY <2>2 DEF ParentStarts, Reset, Enable
  <2>3. CASE Reset(child) /\ ChildStarts
    BY <2>3 DEF ChildStarts, Reset, Enable
  <2>4. CASE Enable(child) /\ ChildStarts
    BY <2>4 DEF ChildStarts, Reset, Enable
  <2> QED BY <1>2, <2>1, <2>2, <2>3, <2>4 DEF ParentStarts, ChildStarts
<1>3. CASE ChildKilled \/ WaitForChild
  BY <1>3 DEF ChildKilled, WaitForChild
<1>4. CASE Disable \/ ReadCount
  <2>1. CASE Disable
    BY <2>1 DEF Disable
  <2>2. CASE ReadCount
    BY <2>2 DEF ReadCount
  <2> QED BY <1>4, <2>1, <2>2
<1>5. CASE Work
  BY <1>5 DEF Work
<1> QED BY <1>1, <1>2, <1>3, <1>4, <1>5 DEF PerfStep, PerfProcesses

-----------------------------------------------------------------------------
(* The launcher.                                                           *)

LauncherInv ==
    /\ LauncherTypeOK /\ ReportedIsStill
    /\ stopPending => running
    /\ launcher \in {"fork", "failed"} => image = "none" /\ ~running
    /\ launcher = "kill" => ~stopPending /\ (image # "ended" => running)

LEMMA LauncherSteps == LauncherInv /\ LauncherStep => LauncherInv'
<1> SUFFICES ASSUME LauncherInv, LauncherStep PROVE LauncherInv'
  OBVIOUS
<1> USE DEF LauncherInv, LauncherTypeOK, ReportedIsStill
<1>1. ASSUME NEW ok \in BOOLEAN, ForkChild(ok) \/ Exec(ok)
      PROVE  LauncherInv'
  <2>1. CASE ok = TRUE
    <3>1. CASE ForkChild(ok)
      BY <2>1, <3>1 DEF ForkChild
    <3>2. CASE Exec(ok)
      <4>1. stopPending' = stopPending
        BY <2>1, <3>2, Zenon DEF Exec
      <4>2. /\ running /\ running' = TRUE /\ image = "launcher" /\ image' = "program"
            /\ UNCHANGED <<launcher, continued>>
        BY <2>1, <3>2 DEF Exec
      <4> QED BY <4>1, <4>2
    <3> QED BY <1>1, <3>1, <3>2
  <2>2. CASE ok = FALSE
    BY <1>1, <2>2 DEF ForkChild, Exec
  <2> QED BY <2>1, <2>2
<1>2. CASE SendStop
  <2>1. launcher = "kill" /\ launcher' = "wait" /\ UNCHANGED <<image, running, continued>>
        /\ stopPending' \in BOOLEAN /\ (stopPending' => image # "ended")
    BY <1>2 DEF SendStop, Ended
  <2> QED BY <2>1
<1>3. CASE WaitUntraced \/ Report
  BY <1>3 DEF WaitUntraced, Report
<1>4. CASE TakeStop \/ ProgramEnds \/ Continue
  <2>1. CASE TakeStop
    BY <2>1 DEF TakeStop
  <2>2. CASE ProgramEnds
    BY <2>2 DEF ProgramEnds
  <2>3. CASE Continue
    BY <2>3 DEF Continue
  <2> QED BY <1>4, <2>1, <2>2, <2>3
<1> QED BY <1>1, <1>2, <1>3, <1>4 DEF LauncherStep, LauncherCode

-----------------------------------------------------------------------------
(* The theorems.                                                           *)

IInv == PmuInv /\ PerfInv /\ LauncherInv

LEMMA IInvInit == Init => IInv
<1> SUFFICES ASSUME Init PROVE IInv
  OBVIOUS
<1>1. PmuInv
  <2> USE DEF Init, PmuInit, At, Zeros
  <2>1. PmuTypes
    <3>1. 0 \in Counters /\ 0 \in 0..(Wrap - 1)
      BY LastCounter
    <3>2. /\ select \in [Cpus -> Counters] /\ cnt \in [Cpus -> [Counters -> 0..(Wrap - 1)]]
          /\ type \in [Cpus -> [Counters -> Counters \union {NoEvent}]]
          /\ value \in [Counters -> 0..(Wrap - 1)]
          /\ sure \in [Counters -> Nat] /\ maybe \in [Counters -> Nat]
      BY <3>1
    <3>3. set \in [Cpus -> SUBSET Counters]
      OBVIOUS
    <3>4. /\ at = At(at.label, at.c) /\ at.c \in Counters /\ cpu \in Cpus /\ home \in Cpus
          /\ on = {} /\ loads = 0 /\ moves = 0 /\ events = 0
          /\ pmcr = FALSE /\ excused = FALSE
      BY <3>1
    <3> HIDE DEF Init, PmuInit, At
    <3>5. {pmcr, excused} \subseteq BOOLEAN
      BY <3>4, Zenon
    <3>6. loads \in 0..MaxLoads /\ moves \in 0..MaxMoves /\ events \in 0..MaxEvents
          /\ {cpu, home} \subseteq Cpus /\ on \in SUBSET Cpus
      BY <3>4
    <3>7. at = At(at.label, at.c) /\ at.c \in Counters
      BY <3>4
    <3> QED BY <3>2, <3>3, <3>5, <3>6, <3>7, Zenon DEF PmuTypes, PmuTypeOK
  <2>2. OnInv /\ ProgramInv /\ ValueInv
    BY DEF OnInv, ProgramInv, ValueInv, In, Is, Programming
  <2> QED BY <2>1, <2>2 DEF PmuInv
<1>2. PerfInv
  <2>1. /\ forks \in BOOLEAN /\ parent = "open" /\ child = "none"
        /\ enabled = FALSE /\ count = 0 /\ printed = 0 /\ work = 0
    BY DEF Init, PerfInit
  <2>2. 0 \in 0..MaxWork
    OBVIOUS
  <2>3. {forks, enabled} \subseteq BOOLEAN
    BY <2>1, Zenon
  <2>4. {count, printed, work} \subseteq 0..MaxWork /\ count <= work
    BY <2>1, <2>2
  <2>5. parent = "open" /\ child = "none"
    BY <2>1
  <2> QED BY <2>3, <2>4, <2>5 DEF PerfInv, PerfTypeOK, PrintedIsFinal
<1>3. LauncherInv
  BY DEF Init, LauncherInit, LauncherInv, LauncherTypeOK, ReportedIsStill
<1> QED BY <1>1, <1>2, <1>3 DEF IInv

LEMMA IInvSteps == IInv /\ [Next]_vars => IInv'
<1> SUFFICES ASSUME IInv, [Next]_vars PROVE IInv'
  OBVIOUS
<1>1. ASSUME UNCHANGED pmuVars PROVE PmuInv'
  BY <1>1 DEF IInv, PmuInv, pmuVars, PmuTypes, PmuTypeOK, OnInv, ProgramInv, ValueInv,
              In, Is, Programmed, Covers
<1>2. ASSUME UNCHANGED perfVars PROVE PerfInv'
  BY <1>2 DEF IInv, PerfInv, perfVars, PerfTypeOK, PrintedIsFinal
<1>3. ASSUME UNCHANGED launcherVars PROVE LauncherInv'
  BY <1>3 DEF IInv, LauncherInv, launcherVars, LauncherTypeOK, ReportedIsStill
<1>4. CASE UsePmu
  <2>1. PmuInv'
    BY <1>4, PmuTypesStep, PmuKeeps DEF UsePmu, IInv, PmuInv
  <2> QED BY <1>2, <1>3, <1>4, <2>1 DEF UsePmu, IInv
<1>5. CASE UsePerf
  BY <1>1, <1>3, <1>5, PerfSteps DEF UsePerf, IInv
<1>6. CASE UseLauncher
  BY <1>1, <1>2, <1>6, LauncherSteps DEF UseLauncher, IInv
<1>7. CASE UNCHANGED vars
  BY <1>1, <1>2, <1>3, <1>7 DEF vars, IInv
<1> QED BY <1>4, <1>5, <1>6, <1>7 DEF Next

(* The inductive invariant: how far the registers are programmed and read  *)
(* at each instruction, who may still use the event, whether the stop is   *)
(* on its way.                                                             *)
THEOREM InvariantCorrect == Spec => []IInv
  BY IInvInit, IInvSteps, PTL DEF Spec

(* Every variable keeps its type.                                          *)
THEOREM TypeCorrect == Spec => []TypeOK
<1>1. IInv => TypeOK
  BY DEF IInv, PmuInv, PmuTypes, PerfInv, LauncherInv, TypeOK
<1> QED BY <1>1, InvariantCorrect, PTL

(* On one CPU the values are those of the load, modulo the counters' width *)
(* and up to the events of loading and unloading: for any width, so also   *)
(* for the 32 bits of the A53, and for any number of events.               *)
THEOREM ValuesCorrect == Spec => []ValuesCoverLoad
<1>1. IInv => ValuesCoverLoad
  BY DEF IInv, PmuInv, ValueInv, In, Is, Covers, Between, ValuesCoverLoad
<1> QED BY <1>1, InvariantCorrect, PTL

(* An unloaded module leaves no PMU on, whatever the interleaving of       *)
(* events, unless a load failed or changed its CPU.                        *)
THEOREM OffCorrect == Spec => []OffAfterUnload
<1>1. IInv => OffAfterUnload
  BY DEF IInv, PmuInv, OnInv, In, Is, OffAfterUnload
<1> QED BY <1>1, InvariantCorrect, PTL

(* A printed count is final, though another process enables the event.     *)
THEOREM PrintedCorrect == Spec => []PrintedIsFinal
<1>1. IInv => PrintedIsFinal
  BY DEF IInv, PerfInv
<1> QED BY <1>1, InvariantCorrect, PTL

(* A reported child holds still until somebody continues it.               *)
THEOREM StillCorrect == Spec => []ReportedIsStill
<1>1. IInv => ReportedIsStill
  BY DEF IInv, LauncherInv
<1> QED BY <1>1, InvariantCorrect, PTL
=============================================================================
