----------------------------- MODULE Ps2Proofs -----------------------------
(***************************************************************************)
(* Proofs about Ps2, for every person, device and controller, and for       *)
(* firmware that leaves translation on: what the driver reads is the       *)
(* answer to what it asked, and no byte loses its interrupt.  No modifier  *)
(* gets stuck.                                                             *)
(***************************************************************************)
EXTENDS Ps2, SequenceTheorems, TLAPS

----------------------------------------------------------------------------
(* The program, operation by operation.                                    *)

OpNames == {"wait_write", "wait_read", "command", "data", "read", "flush", "change", "port",
            "if_port_1"}
Words == {"none", "disable_keyboard", "disable_mouse", "enable_keyboard", "read_config",
          "write_config", "self_test", "test_1", "test_2", "pulse", "config", "test", "ack",
          "first", "second", "toggle", "enable", "disable_scanning", "identify",
          "enable_scanning"}
Ops == {[op |-> o, arg |-> a] : o \in OpNames, a \in Words \cup {1, 2}}

\* s stands in u behind the first k operations, to its n-th.
Holds(u, k, s, n) == \A i \in 1..n : u[k + i] = s[i]

\* Operations are operations.
LEMMA OpIsOp ==
    ASSUME NEW o \in OpNames, NEW a \in Words \cup {1, 2}
    PROVE  Op(o, a) \in Ops
BY DEF Op, Ops

\* u is s, of m operations, followed by t, of n: it holds whatever s does.
Joins(u, s, m, t, n) ==
    /\ u \in Seq(Ops) /\ Len(u) = m + n
    /\ Holds(u, 0, s, m) /\ Holds(u, m, t, n)
    /\ \A r : \A k \in Nat, l \in Nat : k + l <= m /\ Holds(s, k, r, l) => Holds(u, k, r, l)

\* That is what their concatenation does.
LEMMA Joined ==
    ASSUME NEW s \in Seq(Ops), NEW t \in Seq(Ops), NEW m, NEW n, Len(s) = m, Len(t) = n
    PROVE  Joins(s \o t, s, m, t, n)
<1>1. n \in Nat /\ m \in Nat
  BY LenProperties
<1>2. PICK u : u = s \o t
  OBVIOUS
<1>3. /\ u \in Seq(Ops) /\ Len(u) = m + n
      /\ \A i \in 1..(m + n) : u[i] = IF i <= m THEN s[i] ELSE t[i - m]
  BY <1>2, ConcatProperties
<1>4. ASSUME NEW i \in 1..m PROVE u[i] = s[i]
  BY <1>1, <1>3
<1>5. ASSUME NEW i \in 1..n PROVE u[m + i] = t[i]
  <2>1. m + i \in 1..(m + n) /\ ~(m + i <= m) /\ (m + i) - m = i
    BY <1>1
  <2> QED BY <1>3, <2>1
<1>6. Holds(u, 0, s, m)
  <2>1. \A i \in 1..m : 0 + i = i
    BY <1>1
  <2> QED BY <1>4, <2>1 DEF Holds
<1>7. ASSUME NEW k \in Nat, NEW l \in Nat, NEW r, k + l <= m, Holds(s, k, r, l)
      PROVE  Holds(u, k, r, l)
  <2> SUFFICES ASSUME NEW i \in 1..l PROVE u[k + i] = r[i]
    BY DEF Holds
  <2>1. k + i \in 1..m
    BY <1>1, <1>7
  <2> QED BY <1>4, <1>7, <2>1 DEF Holds
<1> QED BY <1>2, <1>3, <1>5, <1>6, <1>7 DEF Holds, Joins

\* Two sequences are read off element by element.
Two(u, a, b) == u \in Seq(Ops) /\ Len(u) = 2 /\ u[1] = a /\ u[2] = b

Four(u, a, b, c, d) ==
    u \in Seq(Ops) /\ Len(u) = 4 /\ u[1] = a /\ u[2] = b /\ u[3] = c /\ u[4] = d

\* Two operations and two more are four.
LEMMA TwoAndTwo ==
    ASSUME NEW s, NEW t, NEW a, NEW b, NEW c, NEW d, Two(s, a, b), Two(t, c, d)
    PROVE  Four(s \o t, a, b, c, d)
<1>1. s \in Seq(Ops) /\ t \in Seq(Ops) /\ Len(s) = 2 /\ Len(t) = 2
  BY DEF Two
<1>2. PICK u : u = s \o t /\ Joins(u, s, 2, t, 2)
  BY <1>1, Joined
<1>3. u \in Seq(Ops) /\ Len(u) = 2 + 2 /\ Holds(u, 0, s, 2) /\ Holds(u, 2, t, 2)
  BY <1>2 DEF Joins
<1>4. u[0 + 1] = s[1] /\ u[0 + 2] = s[2] /\ u[2 + 1] = t[1] /\ u[2 + 2] = t[2]
  BY <1>3 DEF Holds
<1> QED BY <1>2, <1>3, <1>4 DEF Two, Four

\* The wait and what comes after it.
LEMMA WaitOps ==
    ASSUME NEW a \in Words
    PROVE  /\ Two(SendCommand(a), Op("wait_write", "none"), Op("command", a))
           /\ Two(SendData(a), Op("wait_write", "none"), Op("data", a))
           /\ Two(WaitAndRead(a), Op("wait_read", "none"), Op("read", a))
<1>1. /\ Op("wait_write", "none") \in Ops /\ Op("wait_read", "none") \in Ops
      /\ Op("command", a) \in Ops /\ Op("data", a) \in Ops /\ Op("read", a) \in Ops
  BY OpIsOp DEF OpNames, Words
<1> QED BY <1>1 DEF Two, SendCommand, SendData, WaitAndRead

\* One operation alone.
LEMMA OneOp ==
    ASSUME NEW o \in OpNames, NEW a \in Words \cup {1, 2}
    PROVE  <<Op(o, a)>> \in Seq(Ops) /\ Len(<<Op(o, a)>>) = 1
BY OpIsOp

\* The configuration byte is asked for and read.
LEMMA ReadConfigOps ==
    Four(ps2_read_config, Op("wait_write", "none"), Op("command", "read_config"),
         Op("wait_read", "none"), Op("read", "config"))
BY WaitOps, TwoAndTwo DEF ps2_read_config, Words

\* Both ports are turned off, and the controller tests itself.
LEMMA DisableOps ==
    /\ Four(ps2_disable, Op("wait_write", "none"), Op("command", "disable_keyboard"),
            Op("wait_write", "none"), Op("command", "disable_mouse"))
    /\ Four(ps2_self_test, Op("wait_write", "none"), Op("command", "self_test"),
            Op("wait_read", "none"), Op("read", "self_test"))
BY WaitOps, TwoAndTwo DEF ps2_disable, ps2_self_test, Words

\* The configuration byte is changed and written back.
LEMMA WriteConfigOps ==
    ASSUME NEW c \in Words
    PROVE  /\ WriteConfig(c) \in Seq(Ops) /\ Len(WriteConfig(c)) = 4
           /\ Holds(WriteConfig(c), 0, <<Op("change", c)>>, 1)
           /\ Holds(WriteConfig(c), 1, SendCommand("write_config"), 2)
           /\ Holds(WriteConfig(c), 3, <<Op("data", "config")>>, 1)
<1> DEFINE A == <<Op("change", c)>>
           B == SendCommand("write_config")
           C == <<Op("data", "config")>>
<1>1. /\ A \in Seq(Ops) /\ Len(A) = 1
      /\ B \in Seq(Ops) /\ Len(B) = 2
      /\ C \in Seq(Ops) /\ Len(C) = 1
  BY OneOp, WaitOps DEF Two, OpNames, Words
<1>2. WriteConfig(c) = (A \o B) \o C
  BY DEF WriteConfig
<1> HIDE DEF A, B, C
<1>3. PICK u1 : u1 = A \o B /\ Joins(u1, A, 1, B, 2)
  BY <1>1, Joined
<1>4. /\ u1 \in Seq(Ops) /\ Len(u1) = 3
      /\ Holds(u1, 0, A, 1)
      /\ Holds(u1, 1, B, 2)
  <2>1. /\ u1 \in Seq(Ops) /\ Len(u1) = 3 /\ Holds(u1, 0, A, 1)
        /\ Holds(u1, 1, B, 2)
        /\ \A r : \A k \in Nat, l \in Nat : k + l <= 1 /\ Holds(A, k, r, l)
                => Holds(u1, k, r, l)
    BY <1>3 DEF Joins
  <2> QED BY <2>1
<1>5. PICK u2 : u2 = u1 \o C /\ Joins(u2, u1, 3, C, 1)
  BY <1>1, <1>4, Joined
<1>6. /\ u2 \in Seq(Ops) /\ Len(u2) = 4
      /\ Holds(u2, 0, A, 1)
      /\ Holds(u2, 1, B, 2)
      /\ Holds(u2, 3, C, 1)
  <2>1. /\ u2 \in Seq(Ops) /\ Len(u2) = 4 /\ Holds(u2, 0, u1, 3)
        /\ Holds(u2, 3, C, 1)
        /\ \A r : \A k \in Nat, l \in Nat : k + l <= 3 /\ Holds(u1, k, r, l)
                => Holds(u2, k, r, l)
    BY <1>5 DEF Joins
  <2> QED BY <2>1, <1>4
<1>7. WriteConfig(c) = u2
  BY <1>2, <1>3, <1>5, Zenon
<1> QED BY <1>6, <1>7 DEF A, B, C

\* Interrupts are turned off.
LEMMA DisableInterruptsOps ==
    /\ ps2_disable_interrupts \in Seq(Ops) /\ Len(ps2_disable_interrupts) = 8
    /\ Holds(ps2_disable_interrupts, 0, ps2_read_config, 4)
    /\ Holds(ps2_disable_interrupts, 4, WriteConfig("toggle"), 4)
<1> DEFINE A == ps2_read_config
           B == WriteConfig("toggle")
<1>1. /\ A \in Seq(Ops) /\ Len(A) = 4
      /\ B \in Seq(Ops) /\ Len(B) = 4
  BY ReadConfigOps, WriteConfigOps DEF Four, OpNames, Words
<1>2. ps2_disable_interrupts = A \o B
  BY DEF ps2_disable_interrupts
<1> HIDE DEF A, B
<1>3. PICK u1 : u1 = A \o B /\ Joins(u1, A, 4, B, 4)
  BY <1>1, Joined
<1>4. /\ u1 \in Seq(Ops) /\ Len(u1) = 8
      /\ Holds(u1, 0, A, 4)
      /\ Holds(u1, 4, B, 4)
  <2>1. /\ u1 \in Seq(Ops) /\ Len(u1) = 8 /\ Holds(u1, 0, A, 4)
        /\ Holds(u1, 4, B, 4)
        /\ \A r : \A k \in Nat, l \in Nat : k + l <= 4 /\ Holds(A, k, r, l)
                => Holds(u1, k, r, l)
    BY <1>3 DEF Joins
  <2> QED BY <2>1
<1>5. ps2_disable_interrupts = u1
  BY <1>2, <1>3, Zenon
<1> QED BY <1>4, <1>5 DEF A, B

\* A port is tested.
LEMMA CheckPortOps ==
    ASSUME NEW test \in Words, NEW port \in {1, 2}
    PROVE  /\ ps2_check_port(test, port) \in Seq(Ops) /\ Len(ps2_check_port(test, port)) = 9
           /\ Holds(ps2_check_port(test, port), 0, SendCommand(test), 2)
           /\ Holds(ps2_check_port(test, port), 2, WaitAndRead("test"), 2)
           /\ Holds(ps2_check_port(test, port), 4, ps2_read_config, 4)
           /\ Holds(ps2_check_port(test, port), 8, <<Op("port", port)>>, 1)
<1> DEFINE A == SendCommand(test)
           B == WaitAndRead("test")
           C == ps2_read_config
           D == <<Op("port", port)>>
<1>1. /\ A \in Seq(Ops) /\ Len(A) = 2
      /\ B \in Seq(Ops) /\ Len(B) = 2
      /\ C \in Seq(Ops) /\ Len(C) = 4
      /\ D \in Seq(Ops) /\ Len(D) = 1
  BY OneOp, WaitOps, ReadConfigOps DEF Two, Four, OpNames, Words
<1>2. ps2_check_port(test, port) = ((A \o B) \o C) \o D
  BY DEF ps2_check_port
<1> HIDE DEF A, B, C, D
<1>3. PICK u1 : u1 = A \o B /\ Joins(u1, A, 2, B, 2)
  BY <1>1, Joined
<1>4. /\ u1 \in Seq(Ops) /\ Len(u1) = 4
      /\ Holds(u1, 0, A, 2)
      /\ Holds(u1, 2, B, 2)
  <2>1. /\ u1 \in Seq(Ops) /\ Len(u1) = 4 /\ Holds(u1, 0, A, 2)
        /\ Holds(u1, 2, B, 2)
        /\ \A r : \A k \in Nat, l \in Nat : k + l <= 2 /\ Holds(A, k, r, l)
                => Holds(u1, k, r, l)
    BY <1>3 DEF Joins
  <2> QED BY <2>1
<1>5. PICK u2 : u2 = u1 \o C /\ Joins(u2, u1, 4, C, 4)
  BY <1>1, <1>4, Joined
<1>6. /\ u2 \in Seq(Ops) /\ Len(u2) = 8
      /\ Holds(u2, 0, A, 2)
      /\ Holds(u2, 2, B, 2)
      /\ Holds(u2, 4, C, 4)
  <2>1. /\ u2 \in Seq(Ops) /\ Len(u2) = 8 /\ Holds(u2, 0, u1, 4)
        /\ Holds(u2, 4, C, 4)
        /\ \A r : \A k \in Nat, l \in Nat : k + l <= 4 /\ Holds(u1, k, r, l)
                => Holds(u2, k, r, l)
    BY <1>5 DEF Joins
  <2> QED BY <2>1, <1>4
<1>7. PICK u3 : u3 = u2 \o D /\ Joins(u3, u2, 8, D, 1)
  BY <1>1, <1>6, Joined
<1>8. /\ u3 \in Seq(Ops) /\ Len(u3) = 9
      /\ Holds(u3, 0, A, 2)
      /\ Holds(u3, 2, B, 2)
      /\ Holds(u3, 4, C, 4)
      /\ Holds(u3, 8, D, 1)
  <2>1. /\ u3 \in Seq(Ops) /\ Len(u3) = 9 /\ Holds(u3, 0, u2, 8)
        /\ Holds(u3, 8, D, 1)
        /\ \A r : \A k \in Nat, l \in Nat : k + l <= 8 /\ Holds(u2, k, r, l)
                => Holds(u3, k, r, l)
    BY <1>7 DEF Joins
  <2> QED BY <2>1, <1>6
<1>9. ps2_check_port(test, port) = u3
  BY <1>2, <1>3, <1>5, <1>7, Zenon
<1> QED BY <1>8, <1>9 DEF A, B, C, D

\* The keyboard is turned on, with its interrupt.
LEMMA EnableOps ==
    /\ ps2_enable \in Seq(Ops) /\ Len(ps2_enable) = 10
    /\ Holds(ps2_enable, 0, ps2_read_config, 4)
    /\ Holds(ps2_enable, 4, SendCommand("enable_keyboard"), 2)
    /\ Holds(ps2_enable, 6, WriteConfig("enable"), 4)
<1> DEFINE A == ps2_read_config
           B == SendCommand("enable_keyboard")
           C == WriteConfig("enable")
<1>1. /\ A \in Seq(Ops) /\ Len(A) = 4
      /\ B \in Seq(Ops) /\ Len(B) = 2
      /\ C \in Seq(Ops) /\ Len(C) = 4
  BY ReadConfigOps, WriteConfigOps, WaitOps DEF Two, Four, OpNames, Words
<1>2. ps2_enable = (A \o B) \o C
  BY DEF ps2_enable
<1> HIDE DEF A, B, C
<1>3. PICK u1 : u1 = A \o B /\ Joins(u1, A, 4, B, 2)
  BY <1>1, Joined
<1>4. /\ u1 \in Seq(Ops) /\ Len(u1) = 6
      /\ Holds(u1, 0, A, 4)
      /\ Holds(u1, 4, B, 2)
  <2>1. /\ u1 \in Seq(Ops) /\ Len(u1) = 6 /\ Holds(u1, 0, A, 4)
        /\ Holds(u1, 4, B, 2)
        /\ \A r : \A k \in Nat, l \in Nat : k + l <= 4 /\ Holds(A, k, r, l)
                => Holds(u1, k, r, l)
    BY <1>3 DEF Joins
  <2> QED BY <2>1
<1>5. PICK u2 : u2 = u1 \o C /\ Joins(u2, u1, 6, C, 4)
  BY <1>1, <1>4, Joined
<1>6. /\ u2 \in Seq(Ops) /\ Len(u2) = 10
      /\ Holds(u2, 0, A, 4)
      /\ Holds(u2, 4, B, 2)
      /\ Holds(u2, 6, C, 4)
  <2>1. /\ u2 \in Seq(Ops) /\ Len(u2) = 10 /\ Holds(u2, 0, u1, 6)
        /\ Holds(u2, 6, C, 4)
        /\ \A r : \A k \in Nat, l \in Nat : k + l <= 6 /\ Holds(u1, k, r, l)
                => Holds(u2, k, r, l)
    BY <1>5 DEF Joins
  <2> QED BY <2>1, <1>4
<1>7. ps2_enable = u2
  BY <1>2, <1>3, <1>5, Zenon
<1> QED BY <1>6, <1>7 DEF A, B, C

\* The device is asked who it is.
LEMMA IdentifyOps ==
    /\ ps2_identify \in Seq(Ops) /\ Len(ps2_identify) = 13
    /\ Holds(ps2_identify, 0, SendData("disable_scanning"), 2)
    /\ Holds(ps2_identify, 2, WaitAndRead("ack"), 2)
    /\ Holds(ps2_identify, 4, SendData("identify"), 2)
    /\ Holds(ps2_identify, 6, WaitAndRead("ack"), 2)
    /\ Holds(ps2_identify, 8, WaitAndRead("first"), 2)
    /\ Holds(ps2_identify, 10, <<Op("read", "second")>>, 1)
    /\ Holds(ps2_identify, 11, SendData("enable_scanning"), 2)
<1> DEFINE A == SendData("disable_scanning")
           B == WaitAndRead("ack")
           C == SendData("identify")
           D == WaitAndRead("ack")
           E == WaitAndRead("first")
           F == <<Op("read", "second")>>
           G == SendData("enable_scanning")
<1>1. /\ A \in Seq(Ops) /\ Len(A) = 2
      /\ B \in Seq(Ops) /\ Len(B) = 2
      /\ C \in Seq(Ops) /\ Len(C) = 2
      /\ D \in Seq(Ops) /\ Len(D) = 2
      /\ E \in Seq(Ops) /\ Len(E) = 2
      /\ F \in Seq(Ops) /\ Len(F) = 1
      /\ G \in Seq(Ops) /\ Len(G) = 2
  BY OneOp, WaitOps DEF Two, OpNames, Words
<1>2. ps2_identify = (((((A \o B) \o C) \o D) \o E) \o F) \o G
  BY DEF ps2_identify
<1> HIDE DEF A, B, C, D, E, F, G
<1>3. PICK u1 : u1 = A \o B /\ Joins(u1, A, 2, B, 2)
  BY <1>1, Joined
<1>4. /\ u1 \in Seq(Ops) /\ Len(u1) = 4
      /\ Holds(u1, 0, A, 2)
      /\ Holds(u1, 2, B, 2)
  <2>1. /\ u1 \in Seq(Ops) /\ Len(u1) = 4 /\ Holds(u1, 0, A, 2)
        /\ Holds(u1, 2, B, 2)
        /\ \A r : \A k \in Nat, l \in Nat : k + l <= 2 /\ Holds(A, k, r, l)
                => Holds(u1, k, r, l)
    BY <1>3 DEF Joins
  <2> QED BY <2>1
<1>5. PICK u2 : u2 = u1 \o C /\ Joins(u2, u1, 4, C, 2)
  BY <1>1, <1>4, Joined
<1>6. /\ u2 \in Seq(Ops) /\ Len(u2) = 6
      /\ Holds(u2, 0, A, 2)
      /\ Holds(u2, 2, B, 2)
      /\ Holds(u2, 4, C, 2)
  <2>1. /\ u2 \in Seq(Ops) /\ Len(u2) = 6 /\ Holds(u2, 0, u1, 4)
        /\ Holds(u2, 4, C, 2)
        /\ \A r : \A k \in Nat, l \in Nat : k + l <= 4 /\ Holds(u1, k, r, l)
                => Holds(u2, k, r, l)
    BY <1>5 DEF Joins
  <2> QED BY <2>1, <1>4
<1>7. PICK u3 : u3 = u2 \o D /\ Joins(u3, u2, 6, D, 2)
  BY <1>1, <1>6, Joined
<1>8. /\ u3 \in Seq(Ops) /\ Len(u3) = 8
      /\ Holds(u3, 0, A, 2)
      /\ Holds(u3, 2, B, 2)
      /\ Holds(u3, 4, C, 2)
      /\ Holds(u3, 6, D, 2)
  <2>1. /\ u3 \in Seq(Ops) /\ Len(u3) = 8 /\ Holds(u3, 0, u2, 6)
        /\ Holds(u3, 6, D, 2)
        /\ \A r : \A k \in Nat, l \in Nat : k + l <= 6 /\ Holds(u2, k, r, l)
                => Holds(u3, k, r, l)
    BY <1>7 DEF Joins
  <2> QED BY <2>1, <1>6
<1>9. PICK u4 : u4 = u3 \o E /\ Joins(u4, u3, 8, E, 2)
  BY <1>1, <1>8, Joined
<1>10. /\ u4 \in Seq(Ops) /\ Len(u4) = 10
      /\ Holds(u4, 0, A, 2)
      /\ Holds(u4, 2, B, 2)
      /\ Holds(u4, 4, C, 2)
      /\ Holds(u4, 6, D, 2)
      /\ Holds(u4, 8, E, 2)
  <2>1. /\ u4 \in Seq(Ops) /\ Len(u4) = 10 /\ Holds(u4, 0, u3, 8)
        /\ Holds(u4, 8, E, 2)
        /\ \A r : \A k \in Nat, l \in Nat : k + l <= 8 /\ Holds(u3, k, r, l)
                => Holds(u4, k, r, l)
    BY <1>9 DEF Joins
  <2> QED BY <2>1, <1>8
<1>11. PICK u5 : u5 = u4 \o F /\ Joins(u5, u4, 10, F, 1)
  BY <1>1, <1>10, Joined
<1>12. /\ u5 \in Seq(Ops) /\ Len(u5) = 11
      /\ Holds(u5, 0, A, 2)
      /\ Holds(u5, 2, B, 2)
      /\ Holds(u5, 4, C, 2)
      /\ Holds(u5, 6, D, 2)
      /\ Holds(u5, 8, E, 2)
      /\ Holds(u5, 10, F, 1)
  <2>1. /\ u5 \in Seq(Ops) /\ Len(u5) = 11 /\ Holds(u5, 0, u4, 10)
        /\ Holds(u5, 10, F, 1)
        /\ \A r : \A k \in Nat, l \in Nat : k + l <= 10 /\ Holds(u4, k, r, l)
                => Holds(u5, k, r, l)
    BY <1>11 DEF Joins
  <2> QED BY <2>1, <1>10
<1>13. PICK u6 : u6 = u5 \o G /\ Joins(u6, u5, 11, G, 2)
  BY <1>1, <1>12, Joined
<1>14. /\ u6 \in Seq(Ops) /\ Len(u6) = 13
      /\ Holds(u6, 0, A, 2)
      /\ Holds(u6, 2, B, 2)
      /\ Holds(u6, 4, C, 2)
      /\ Holds(u6, 6, D, 2)
      /\ Holds(u6, 8, E, 2)
      /\ Holds(u6, 10, F, 1)
      /\ Holds(u6, 11, G, 2)
  <2>1. /\ u6 \in Seq(Ops) /\ Len(u6) = 13 /\ Holds(u6, 0, u5, 11)
        /\ Holds(u6, 11, G, 2)
        /\ \A r : \A k \in Nat, l \in Nat : k + l <= 11 /\ Holds(u5, k, r, l)
                => Holds(u6, k, r, l)
    BY <1>13 DEF Joins
  <2> QED BY <2>1, <1>12
<1>15. ps2_identify = u6
  BY <1>2, <1>3, <1>5, <1>7, <1>9, <1>11, <1>13, Zenon
<1> QED BY <1>14, <1>15 DEF A, B, C, D, E, F, G

\* The functions that ps2_keyboard_init calls, one after the other.
LEMMA ProgramParts ==
    /\ Program \in Seq(Ops) /\ Len(Program) = 61
    /\ Holds(Program, 0, ps2_disable, 4)
    /\ Holds(Program, 4, ps2_flush_output_buffer, 1)
    /\ Holds(Program, 5, ps2_disable_interrupts, 8)
    /\ Holds(Program, 13, ps2_self_test, 4)
    /\ Holds(Program, 17, ps2_check_port("test_1", 1), 9)
    /\ Holds(Program, 26, ps2_check_port("test_2", 2), 9)
    /\ Holds(Program, 35, ps2_enable, 10)
    /\ Holds(Program, 45, ps2_reset, 2)
    /\ Holds(Program, 47, <<Op("if_port_1", "none")>>, 1)
    /\ Holds(Program, 48, ps2_identify, 13)
<1> DEFINE A == ps2_disable
           B == ps2_flush_output_buffer
           C == ps2_disable_interrupts
           D == ps2_self_test
           E == ps2_check_port("test_1", 1)
           F == ps2_check_port("test_2", 2)
           G == ps2_enable
           H == ps2_reset
           I == <<Op("if_port_1", "none")>>
           J == ps2_identify
<1>1. /\ A \in Seq(Ops) /\ Len(A) = 4
      /\ B \in Seq(Ops) /\ Len(B) = 1
      /\ C \in Seq(Ops) /\ Len(C) = 8
      /\ D \in Seq(Ops) /\ Len(D) = 4
      /\ E \in Seq(Ops) /\ Len(E) = 9
      /\ F \in Seq(Ops) /\ Len(F) = 9
      /\ G \in Seq(Ops) /\ Len(G) = 10
      /\ H \in Seq(Ops) /\ Len(H) = 2
      /\ I \in Seq(Ops) /\ Len(I) = 1
      /\ J \in Seq(Ops) /\ Len(J) = 13
  BY DisableOps, OneOp, DisableInterruptsOps, CheckPortOps, EnableOps, WaitOps, IdentifyOps
  DEF Two, Four, OpNames, Words, ps2_flush_output_buffer, ps2_reset
<1>2. Program = ((((((((A \o B) \o C) \o D) \o E) \o F) \o G) \o H) \o I) \o J
  BY DEF Program
<1> HIDE DEF A, B, C, D, E, F, G, H, I, J
<1>3. PICK u1 : u1 = A \o B /\ Joins(u1, A, 4, B, 1)
  BY <1>1, Joined
<1>4. /\ u1 \in Seq(Ops) /\ Len(u1) = 5
      /\ Holds(u1, 0, A, 4)
      /\ Holds(u1, 4, B, 1)
  <2>1. /\ u1 \in Seq(Ops) /\ Len(u1) = 5 /\ Holds(u1, 0, A, 4)
        /\ Holds(u1, 4, B, 1)
        /\ \A r : \A k \in Nat, l \in Nat : k + l <= 4 /\ Holds(A, k, r, l)
                => Holds(u1, k, r, l)
    BY <1>3 DEF Joins
  <2> QED BY <2>1
<1>5. PICK u2 : u2 = u1 \o C /\ Joins(u2, u1, 5, C, 8)
  BY <1>1, <1>4, Joined
<1>6. /\ u2 \in Seq(Ops) /\ Len(u2) = 13
      /\ Holds(u2, 0, A, 4)
      /\ Holds(u2, 4, B, 1)
      /\ Holds(u2, 5, C, 8)
  <2>1. /\ u2 \in Seq(Ops) /\ Len(u2) = 13 /\ Holds(u2, 0, u1, 5)
        /\ Holds(u2, 5, C, 8)
        /\ \A r : \A k \in Nat, l \in Nat : k + l <= 5 /\ Holds(u1, k, r, l)
                => Holds(u2, k, r, l)
    BY <1>5 DEF Joins
  <2> QED BY <2>1, <1>4
<1>7. PICK u3 : u3 = u2 \o D /\ Joins(u3, u2, 13, D, 4)
  BY <1>1, <1>6, Joined
<1>8. /\ u3 \in Seq(Ops) /\ Len(u3) = 17
      /\ Holds(u3, 0, A, 4)
      /\ Holds(u3, 4, B, 1)
      /\ Holds(u3, 5, C, 8)
      /\ Holds(u3, 13, D, 4)
  <2>1. /\ u3 \in Seq(Ops) /\ Len(u3) = 17 /\ Holds(u3, 0, u2, 13)
        /\ Holds(u3, 13, D, 4)
        /\ \A r : \A k \in Nat, l \in Nat : k + l <= 13 /\ Holds(u2, k, r, l)
                => Holds(u3, k, r, l)
    BY <1>7 DEF Joins
  <2> QED BY <2>1, <1>6
<1>9. PICK u4 : u4 = u3 \o E /\ Joins(u4, u3, 17, E, 9)
  BY <1>1, <1>8, Joined
<1>10. /\ u4 \in Seq(Ops) /\ Len(u4) = 26
      /\ Holds(u4, 0, A, 4)
      /\ Holds(u4, 4, B, 1)
      /\ Holds(u4, 5, C, 8)
      /\ Holds(u4, 13, D, 4)
      /\ Holds(u4, 17, E, 9)
  <2>1. /\ u4 \in Seq(Ops) /\ Len(u4) = 26 /\ Holds(u4, 0, u3, 17)
        /\ Holds(u4, 17, E, 9)
        /\ \A r : \A k \in Nat, l \in Nat : k + l <= 17 /\ Holds(u3, k, r, l)
                => Holds(u4, k, r, l)
    BY <1>9 DEF Joins
  <2> QED BY <2>1, <1>8
<1>11. PICK u5 : u5 = u4 \o F /\ Joins(u5, u4, 26, F, 9)
  BY <1>1, <1>10, Joined
<1>12. /\ u5 \in Seq(Ops) /\ Len(u5) = 35
      /\ Holds(u5, 0, A, 4)
      /\ Holds(u5, 4, B, 1)
      /\ Holds(u5, 5, C, 8)
      /\ Holds(u5, 13, D, 4)
      /\ Holds(u5, 17, E, 9)
      /\ Holds(u5, 26, F, 9)
  <2>1. /\ u5 \in Seq(Ops) /\ Len(u5) = 35 /\ Holds(u5, 0, u4, 26)
        /\ Holds(u5, 26, F, 9)
        /\ \A r : \A k \in Nat, l \in Nat : k + l <= 26 /\ Holds(u4, k, r, l)
                => Holds(u5, k, r, l)
    BY <1>11 DEF Joins
  <2> QED BY <2>1, <1>10
<1>13. PICK u6 : u6 = u5 \o G /\ Joins(u6, u5, 35, G, 10)
  BY <1>1, <1>12, Joined
<1>14. /\ u6 \in Seq(Ops) /\ Len(u6) = 45
      /\ Holds(u6, 0, A, 4)
      /\ Holds(u6, 4, B, 1)
      /\ Holds(u6, 5, C, 8)
      /\ Holds(u6, 13, D, 4)
      /\ Holds(u6, 17, E, 9)
      /\ Holds(u6, 26, F, 9)
      /\ Holds(u6, 35, G, 10)
  <2>1. /\ u6 \in Seq(Ops) /\ Len(u6) = 45 /\ Holds(u6, 0, u5, 35)
        /\ Holds(u6, 35, G, 10)
        /\ \A r : \A k \in Nat, l \in Nat : k + l <= 35 /\ Holds(u5, k, r, l)
                => Holds(u6, k, r, l)
    BY <1>13 DEF Joins
  <2> QED BY <2>1, <1>12
<1>15. PICK u7 : u7 = u6 \o H /\ Joins(u7, u6, 45, H, 2)
  BY <1>1, <1>14, Joined
<1>16. /\ u7 \in Seq(Ops) /\ Len(u7) = 47
      /\ Holds(u7, 0, A, 4)
      /\ Holds(u7, 4, B, 1)
      /\ Holds(u7, 5, C, 8)
      /\ Holds(u7, 13, D, 4)
      /\ Holds(u7, 17, E, 9)
      /\ Holds(u7, 26, F, 9)
      /\ Holds(u7, 35, G, 10)
      /\ Holds(u7, 45, H, 2)
  <2>1. /\ u7 \in Seq(Ops) /\ Len(u7) = 47 /\ Holds(u7, 0, u6, 45)
        /\ Holds(u7, 45, H, 2)
        /\ \A r : \A k \in Nat, l \in Nat : k + l <= 45 /\ Holds(u6, k, r, l)
                => Holds(u7, k, r, l)
    BY <1>15 DEF Joins
  <2> QED BY <2>1, <1>14
<1>17. PICK u8 : u8 = u7 \o I /\ Joins(u8, u7, 47, I, 1)
  BY <1>1, <1>16, Joined
<1>18. /\ u8 \in Seq(Ops) /\ Len(u8) = 48
      /\ Holds(u8, 0, A, 4)
      /\ Holds(u8, 4, B, 1)
      /\ Holds(u8, 5, C, 8)
      /\ Holds(u8, 13, D, 4)
      /\ Holds(u8, 17, E, 9)
      /\ Holds(u8, 26, F, 9)
      /\ Holds(u8, 35, G, 10)
      /\ Holds(u8, 45, H, 2)
      /\ Holds(u8, 47, I, 1)
  <2>1. /\ u8 \in Seq(Ops) /\ Len(u8) = 48 /\ Holds(u8, 0, u7, 47)
        /\ Holds(u8, 47, I, 1)
        /\ \A r : \A k \in Nat, l \in Nat : k + l <= 47 /\ Holds(u7, k, r, l)
                => Holds(u8, k, r, l)
    BY <1>17 DEF Joins
  <2> QED BY <2>1, <1>16
<1>19. PICK u9 : u9 = u8 \o J /\ Joins(u9, u8, 48, J, 13)
  BY <1>1, <1>18, Joined
<1>20. /\ u9 \in Seq(Ops) /\ Len(u9) = 61
      /\ Holds(u9, 0, A, 4)
      /\ Holds(u9, 4, B, 1)
      /\ Holds(u9, 5, C, 8)
      /\ Holds(u9, 13, D, 4)
      /\ Holds(u9, 17, E, 9)
      /\ Holds(u9, 26, F, 9)
      /\ Holds(u9, 35, G, 10)
      /\ Holds(u9, 45, H, 2)
      /\ Holds(u9, 47, I, 1)
      /\ Holds(u9, 48, J, 13)
  <2>1. /\ u9 \in Seq(Ops) /\ Len(u9) = 61 /\ Holds(u9, 0, u8, 48)
        /\ Holds(u9, 48, J, 13)
        /\ \A r : \A k \in Nat, l \in Nat : k + l <= 48 /\ Holds(u8, k, r, l)
                => Holds(u9, k, r, l)
    BY <1>19 DEF Joins
  <2> QED BY <2>1, <1>18
<1>21. Program = u9
  BY <1>2, <1>3, <1>5, <1>7, <1>9, <1>11, <1>13, <1>15, <1>17, <1>19, Zenon
<1> QED BY <1>20, <1>21 DEF A, B, C, D, E, F, G, H, I, J

\* What a part of the program holds, the program holds.
LEMMA Within ==
    ASSUME NEW u, NEW s, NEW r, NEW k \in Nat, NEW n \in Nat, NEW j \in Nat, NEW l \in Nat,
           Holds(u, k, s, n), Holds(s, j, r, l), j + l <= n
    PROVE  Holds(u, k + j, r, l)
<1> SUFFICES ASSUME NEW i \in 1..l PROVE u[(k + j) + i] = r[i]
  BY DEF Holds
<1>1. j + i \in 1..n /\ (k + j) + i = k + (j + i)
  OBVIOUS
<1>2. u[k + (j + i)] = s[j + i] /\ s[j + i] = r[i]
  BY <1>1 DEF Holds
<1> QED BY <1>1, <1>2

\* Two operations, when they stand behind the first k.
LEMMA TwoStand ==
    ASSUME NEW u, NEW s, NEW k, NEW a, NEW b, Two(s, a, b), Holds(u, k, s, 2)
    PROVE  u[k + 1] = a /\ u[k + 2] = b
BY DEF Holds, Two

\* Four, when they do.
LEMMA FourStand ==
    ASSUME NEW u, NEW s, NEW k, NEW a, NEW b, NEW c, NEW d, Four(s, a, b, c, d),
           Holds(u, k, s, 4)
    PROVE  u[k + 1] = a /\ u[k + 2] = b /\ u[k + 3] = c /\ u[k + 4] = d
BY DEF Holds, Four

\* The configuration byte is changed and written back, operation by operation.
LEMMA WriteConfigFour ==
    ASSUME NEW c \in Words
    PROVE  Four(WriteConfig(c), Op("change", c), Op("wait_write", "none"),
                Op("command", "write_config"), Op("data", "config"))
<1> PICK u : u = WriteConfig(c)
  OBVIOUS
<1>1. /\ u \in Seq(Ops) /\ Len(u) = 4 /\ Holds(u, 0, <<Op("change", c)>>, 1)
      /\ Holds(u, 1, SendCommand("write_config"), 2) /\ Holds(u, 3, <<Op("data", "config")>>, 1)
  BY WriteConfigOps
<1>2. u[0 + 1] = Op("change", c) /\ u[3 + 1] = Op("data", "config")
  BY <1>1 DEF Holds
<1>3. u[1 + 1] = Op("wait_write", "none") /\ u[1 + 2] = Op("command", "write_config")
  <2>1. Two(SendCommand("write_config"), Op("wait_write", "none"), Op("command", "write_config"))
    BY WaitOps DEF Words
  <2>2. 1 \in 1..2 /\ 2 \in 1..2
    OBVIOUS
  <2> QED BY <1>1, <2>1, <2>2 DEF Holds, Two
<1> QED BY <1>1, <1>2, <1>3 DEF Four

\* The driver's program, operation by operation.
LEMMA ProgramOps ==
    /\ Len(Program) = 61
    /\ Program[1] = Op("wait_write", "none")
    /\ Program[2] = Op("command", "disable_keyboard")
    /\ Program[3] = Op("wait_write", "none")
    /\ Program[4] = Op("command", "disable_mouse") /\ Program[5] = Op("flush", "none")
    /\ Program[6] = Op("wait_write", "none")
    /\ Program[7] = Op("command", "read_config") /\ Program[8] = Op("wait_read", "none")
    /\ Program[9] = Op("read", "config") /\ Program[10] = Op("change", "toggle")
    /\ Program[11] = Op("wait_write", "none")
    /\ Program[12] = Op("command", "write_config") /\ Program[13] = Op("data", "config")
    /\ Program[14] = Op("wait_write", "none")
    /\ Program[15] = Op("command", "self_test") /\ Program[16] = Op("wait_read", "none")
    /\ Program[17] = Op("read", "self_test") /\ Program[18] = Op("wait_write", "none")
    /\ Program[19] = Op("command", "test_1") /\ Program[20] = Op("wait_read", "none")
    /\ Program[21] = Op("read", "test") /\ Program[22] = Op("wait_write", "none")
    /\ Program[23] = Op("command", "read_config")
    /\ Program[24] = Op("wait_read", "none") /\ Program[25] = Op("read", "config")
    /\ Program[26] = Op("port", 1) /\ Program[27] = Op("wait_write", "none")
    /\ Program[28] = Op("command", "test_2") /\ Program[29] = Op("wait_read", "none")
    /\ Program[30] = Op("read", "test") /\ Program[31] = Op("wait_write", "none")
    /\ Program[32] = Op("command", "read_config")
    /\ Program[33] = Op("wait_read", "none") /\ Program[34] = Op("read", "config")
    /\ Program[35] = Op("port", 2) /\ Program[36] = Op("wait_write", "none")
    /\ Program[37] = Op("command", "read_config")
    /\ Program[38] = Op("wait_read", "none") /\ Program[39] = Op("read", "config")
    /\ Program[40] = Op("wait_write", "none")
    /\ Program[41] = Op("command", "enable_keyboard")
    /\ Program[42] = Op("change", "enable") /\ Program[43] = Op("wait_write", "none")
    /\ Program[44] = Op("command", "write_config") /\ Program[45] = Op("data", "config")
    /\ Program[46] = Op("wait_write", "none") /\ Program[47] = Op("command", "pulse")
    /\ Program[48] = Op("if_port_1", "none") /\ Program[49] = Op("wait_write", "none")
    /\ Program[50] = Op("data", "disable_scanning")
    /\ Program[51] = Op("wait_read", "none") /\ Program[52] = Op("read", "ack")
    /\ Program[53] = Op("wait_write", "none") /\ Program[54] = Op("data", "identify")
    /\ Program[55] = Op("wait_read", "none") /\ Program[56] = Op("read", "ack")
    /\ Program[57] = Op("wait_read", "none") /\ Program[58] = Op("read", "first")
    /\ Program[59] = Op("read", "second") /\ Program[60] = Op("wait_write", "none")
    /\ Program[61] = Op("data", "enable_scanning")
<1>1. Len(Program) = 61
  BY ProgramParts
<1>2. /\ Program[1] = Op("wait_write", "none")
      /\ Program[2] = Op("command", "disable_keyboard")
      /\ Program[3] = Op("wait_write", "none")
      /\ Program[4] = Op("command", "disable_mouse")
  <2>1. Holds(Program, 0, ps2_disable, 4)
    BY ProgramParts
  <2>2. Four(ps2_disable, Op("wait_write", "none"), Op("command", "disable_keyboard"),
          Op("wait_write", "none"), Op("command", "disable_mouse"))
    BY DisableOps
  <2>3. /\ Program[0 + 1] = Op("wait_write", "none")
        /\ Program[0 + 2] = Op("command", "disable_keyboard")
        /\ Program[0 + 3] = Op("wait_write", "none")
        /\ Program[0 + 4] = Op("command", "disable_mouse")
    BY <2>1, <2>2, FourStand
  <2> QED BY <2>3
<1>3. /\ Program[5] = Op("flush", "none")
  <2>1. Holds(Program, 4, ps2_flush_output_buffer, 1)
    BY ProgramParts
  <2>2. Program[4 + 1] = Op("flush", "none")
    BY <2>1 DEF Holds, ps2_flush_output_buffer
  <2> QED BY <2>2
<1>4. /\ Program[6] = Op("wait_write", "none")
      /\ Program[7] = Op("command", "read_config") /\ Program[8] = Op("wait_read", "none")
      /\ Program[9] = Op("read", "config") /\ Program[10] = Op("change", "toggle")
      /\ Program[11] = Op("wait_write", "none")
      /\ Program[12] = Op("command", "write_config") /\ Program[13] = Op("data", "config")
  <2>1. Holds(Program, 5, ps2_disable_interrupts, 8)
    BY ProgramParts
  <2>2. /\ Holds(ps2_disable_interrupts, 0, ps2_read_config, 4)
        /\ Holds(ps2_disable_interrupts, 4, WriteConfig("toggle"), 4)
    BY DisableInterruptsOps DEF Words
  <2>3. /\ Holds(Program, 5 + 0, ps2_read_config, 4)
        /\ Holds(Program, 5 + 4, WriteConfig("toggle"), 4)
    <3> DEFINE part == ps2_disable_interrupts
    <3>1. Holds(Program, 5, part, 8)
      BY <2>1
    <3>2. /\ Holds(part, 0, ps2_read_config, 4)
          /\ Holds(part, 4, WriteConfig("toggle"), 4)
      BY <2>2
    <3> HIDE DEF part
    <3>3. Holds(Program, 5 + 0, ps2_read_config, 4)
      BY <3>1, <3>2, Within
    <3>4. Holds(Program, 5 + 4, WriteConfig("toggle"), 4)
      BY <3>1, <3>2, Within
    <3> QED BY <3>3, <3>4
  <2>4. /\ Program[5 + 1] = Op("wait_write", "none")
        /\ Program[5 + 2] = Op("command", "read_config")
        /\ Program[5 + 3] = Op("wait_read", "none") /\ Program[5 + 4] = Op("read", "config")
    <3>1. Four(ps2_read_config, Op("wait_write", "none"), Op("command", "read_config"),
            Op("wait_read", "none"), Op("read", "config"))
      BY ReadConfigOps DEF Words
    <3>2. Holds(Program, 5, ps2_read_config, 4)
      BY <2>3
    <3> QED BY <3>1, <3>2, FourStand
  <2>5. /\ Program[9 + 1] = Op("change", "toggle")
        /\ Program[9 + 2] = Op("wait_write", "none")
        /\ Program[9 + 3] = Op("command", "write_config")
        /\ Program[9 + 4] = Op("data", "config")
    <3>1. Four(WriteConfig("toggle"), Op("change", "toggle"), Op("wait_write", "none"),
            Op("command", "write_config"), Op("data", "config"))
      BY WriteConfigFour DEF Words
    <3>2. Holds(Program, 9, WriteConfig("toggle"), 4)
      BY <2>3
    <3> QED BY <3>1, <3>2, FourStand
  <2> QED BY <2>4, <2>5
<1>5. /\ Program[14] = Op("wait_write", "none")
      /\ Program[15] = Op("command", "self_test") /\ Program[16] = Op("wait_read", "none")
      /\ Program[17] = Op("read", "self_test")
  <2>1. Holds(Program, 13, ps2_self_test, 4)
    BY ProgramParts
  <2>2. Four(ps2_self_test, Op("wait_write", "none"), Op("command", "self_test"),
            Op("wait_read", "none"), Op("read", "self_test"))
    BY DisableOps
  <2>3. /\ Program[13 + 1] = Op("wait_write", "none")
        /\ Program[13 + 2] = Op("command", "self_test")
        /\ Program[13 + 3] = Op("wait_read", "none")
        /\ Program[13 + 4] = Op("read", "self_test")
    BY <2>1, <2>2, FourStand
  <2> QED BY <2>3
<1>6. /\ Program[18] = Op("wait_write", "none") /\ Program[19] = Op("command", "test_1")
      /\ Program[20] = Op("wait_read", "none") /\ Program[21] = Op("read", "test")
      /\ Program[22] = Op("wait_write", "none")
      /\ Program[23] = Op("command", "read_config")
      /\ Program[24] = Op("wait_read", "none") /\ Program[25] = Op("read", "config")
      /\ Program[26] = Op("port", 1)
  <2>1. Holds(Program, 17, ps2_check_port("test_1", 1), 9)
    BY ProgramParts
  <2>2. /\ Holds(ps2_check_port("test_1", 1), 0, SendCommand("test_1"), 2)
        /\ Holds(ps2_check_port("test_1", 1), 2, WaitAndRead("test"), 2)
        /\ Holds(ps2_check_port("test_1", 1), 4, ps2_read_config, 4)
        /\ Holds(ps2_check_port("test_1", 1), 8, <<Op("port", 1)>>, 1)
    BY CheckPortOps DEF Words
  <2>3. /\ Holds(Program, 17 + 0, SendCommand("test_1"), 2)
        /\ Holds(Program, 17 + 2, WaitAndRead("test"), 2)
        /\ Holds(Program, 17 + 4, ps2_read_config, 4)
        /\ Holds(Program, 17 + 8, <<Op("port", 1)>>, 1)
    <3> DEFINE part == ps2_check_port("test_1", 1)
    <3>1. Holds(Program, 17, part, 9)
      BY <2>1
    <3>2. /\ Holds(part, 0, SendCommand("test_1"), 2)
          /\ Holds(part, 2, WaitAndRead("test"), 2)
          /\ Holds(part, 4, ps2_read_config, 4)
          /\ Holds(part, 8, <<Op("port", 1)>>, 1)
      BY <2>2
    <3> HIDE DEF part
    <3>3. Holds(Program, 17 + 0, SendCommand("test_1"), 2)
      BY <3>1, <3>2, Within
    <3>4. Holds(Program, 17 + 2, WaitAndRead("test"), 2)
      BY <3>1, <3>2, Within
    <3>5. Holds(Program, 17 + 4, ps2_read_config, 4)
      BY <3>1, <3>2, Within
    <3>6. Holds(Program, 17 + 8, <<Op("port", 1)>>, 1)
      BY <3>1, <3>2, Within
    <3> QED BY <3>3, <3>4, <3>5, <3>6
  <2>4. /\ Program[17 + 1] = Op("wait_write", "none")
        /\ Program[17 + 2] = Op("command", "test_1")
    <3>1. Two(SendCommand("test_1"), Op("wait_write", "none"), Op("command", "test_1"))
      BY WaitOps DEF Words
    <3>2. Holds(Program, 17, SendCommand("test_1"), 2)
      BY <2>3
    <3> QED BY <3>1, <3>2, TwoStand
  <2>5. /\ Program[19 + 1] = Op("wait_read", "none") /\ Program[19 + 2] = Op("read", "test")
    <3>1. Two(WaitAndRead("test"), Op("wait_read", "none"), Op("read", "test"))
      BY WaitOps DEF Words
    <3>2. Holds(Program, 19, WaitAndRead("test"), 2)
      BY <2>3
    <3> QED BY <3>1, <3>2, TwoStand
  <2>6. /\ Program[21 + 1] = Op("wait_write", "none")
        /\ Program[21 + 2] = Op("command", "read_config")
        /\ Program[21 + 3] = Op("wait_read", "none")
        /\ Program[21 + 4] = Op("read", "config")
    <3>1. Four(ps2_read_config, Op("wait_write", "none"), Op("command", "read_config"),
            Op("wait_read", "none"), Op("read", "config"))
      BY ReadConfigOps DEF Words
    <3>2. Holds(Program, 21, ps2_read_config, 4)
      BY <2>3
    <3> QED BY <3>1, <3>2, FourStand
  <2>7. /\ Program[25 + 1] = Op("port", 1)
    BY <2>3 DEF Holds
  <2> QED BY <2>4, <2>5, <2>6, <2>7
<1>7. /\ Program[27] = Op("wait_write", "none") /\ Program[28] = Op("command", "test_2")
      /\ Program[29] = Op("wait_read", "none") /\ Program[30] = Op("read", "test")
      /\ Program[31] = Op("wait_write", "none")
      /\ Program[32] = Op("command", "read_config")
      /\ Program[33] = Op("wait_read", "none") /\ Program[34] = Op("read", "config")
      /\ Program[35] = Op("port", 2)
  <2>1. Holds(Program, 26, ps2_check_port("test_2", 2), 9)
    BY ProgramParts
  <2>2. /\ Holds(ps2_check_port("test_2", 2), 0, SendCommand("test_2"), 2)
        /\ Holds(ps2_check_port("test_2", 2), 2, WaitAndRead("test"), 2)
        /\ Holds(ps2_check_port("test_2", 2), 4, ps2_read_config, 4)
        /\ Holds(ps2_check_port("test_2", 2), 8, <<Op("port", 2)>>, 1)
    BY CheckPortOps DEF Words
  <2>3. /\ Holds(Program, 26 + 0, SendCommand("test_2"), 2)
        /\ Holds(Program, 26 + 2, WaitAndRead("test"), 2)
        /\ Holds(Program, 26 + 4, ps2_read_config, 4)
        /\ Holds(Program, 26 + 8, <<Op("port", 2)>>, 1)
    <3> DEFINE part == ps2_check_port("test_2", 2)
    <3>1. Holds(Program, 26, part, 9)
      BY <2>1
    <3>2. /\ Holds(part, 0, SendCommand("test_2"), 2)
          /\ Holds(part, 2, WaitAndRead("test"), 2)
          /\ Holds(part, 4, ps2_read_config, 4)
          /\ Holds(part, 8, <<Op("port", 2)>>, 1)
      BY <2>2
    <3> HIDE DEF part
    <3>3. Holds(Program, 26 + 0, SendCommand("test_2"), 2)
      BY <3>1, <3>2, Within
    <3>4. Holds(Program, 26 + 2, WaitAndRead("test"), 2)
      BY <3>1, <3>2, Within
    <3>5. Holds(Program, 26 + 4, ps2_read_config, 4)
      BY <3>1, <3>2, Within
    <3>6. Holds(Program, 26 + 8, <<Op("port", 2)>>, 1)
      BY <3>1, <3>2, Within
    <3> QED BY <3>3, <3>4, <3>5, <3>6
  <2>4. /\ Program[26 + 1] = Op("wait_write", "none")
        /\ Program[26 + 2] = Op("command", "test_2")
    <3>1. Two(SendCommand("test_2"), Op("wait_write", "none"), Op("command", "test_2"))
      BY WaitOps DEF Words
    <3>2. Holds(Program, 26, SendCommand("test_2"), 2)
      BY <2>3
    <3> QED BY <3>1, <3>2, TwoStand
  <2>5. /\ Program[28 + 1] = Op("wait_read", "none") /\ Program[28 + 2] = Op("read", "test")
    <3>1. Two(WaitAndRead("test"), Op("wait_read", "none"), Op("read", "test"))
      BY WaitOps DEF Words
    <3>2. Holds(Program, 28, WaitAndRead("test"), 2)
      BY <2>3
    <3> QED BY <3>1, <3>2, TwoStand
  <2>6. /\ Program[30 + 1] = Op("wait_write", "none")
        /\ Program[30 + 2] = Op("command", "read_config")
        /\ Program[30 + 3] = Op("wait_read", "none")
        /\ Program[30 + 4] = Op("read", "config")
    <3>1. Four(ps2_read_config, Op("wait_write", "none"), Op("command", "read_config"),
            Op("wait_read", "none"), Op("read", "config"))
      BY ReadConfigOps DEF Words
    <3>2. Holds(Program, 30, ps2_read_config, 4)
      BY <2>3
    <3> QED BY <3>1, <3>2, FourStand
  <2>7. /\ Program[34 + 1] = Op("port", 2)
    BY <2>3 DEF Holds
  <2> QED BY <2>4, <2>5, <2>6, <2>7
<1>8. /\ Program[36] = Op("wait_write", "none")
      /\ Program[37] = Op("command", "read_config")
      /\ Program[38] = Op("wait_read", "none") /\ Program[39] = Op("read", "config")
      /\ Program[40] = Op("wait_write", "none")
      /\ Program[41] = Op("command", "enable_keyboard")
      /\ Program[42] = Op("change", "enable") /\ Program[43] = Op("wait_write", "none")
      /\ Program[44] = Op("command", "write_config") /\ Program[45] = Op("data", "config")
  <2>1. Holds(Program, 35, ps2_enable, 10)
    BY ProgramParts
  <2>2. /\ Holds(ps2_enable, 0, ps2_read_config, 4)
        /\ Holds(ps2_enable, 4, SendCommand("enable_keyboard"), 2)
        /\ Holds(ps2_enable, 6, WriteConfig("enable"), 4)
    BY EnableOps DEF Words
  <2>3. /\ Holds(Program, 35 + 0, ps2_read_config, 4)
        /\ Holds(Program, 35 + 4, SendCommand("enable_keyboard"), 2)
        /\ Holds(Program, 35 + 6, WriteConfig("enable"), 4)
    <3> DEFINE part == ps2_enable
    <3>1. Holds(Program, 35, part, 10)
      BY <2>1
    <3>2. /\ Holds(part, 0, ps2_read_config, 4)
          /\ Holds(part, 4, SendCommand("enable_keyboard"), 2)
          /\ Holds(part, 6, WriteConfig("enable"), 4)
      BY <2>2
    <3> HIDE DEF part
    <3>3. Holds(Program, 35 + 0, ps2_read_config, 4)
      BY <3>1, <3>2, Within
    <3>4. Holds(Program, 35 + 4, SendCommand("enable_keyboard"), 2)
      BY <3>1, <3>2, Within
    <3>5. Holds(Program, 35 + 6, WriteConfig("enable"), 4)
      BY <3>1, <3>2, Within
    <3> QED BY <3>3, <3>4, <3>5
  <2>4. /\ Program[35 + 1] = Op("wait_write", "none")
        /\ Program[35 + 2] = Op("command", "read_config")
        /\ Program[35 + 3] = Op("wait_read", "none")
        /\ Program[35 + 4] = Op("read", "config")
    <3>1. Four(ps2_read_config, Op("wait_write", "none"), Op("command", "read_config"),
            Op("wait_read", "none"), Op("read", "config"))
      BY ReadConfigOps DEF Words
    <3>2. Holds(Program, 35, ps2_read_config, 4)
      BY <2>3
    <3> QED BY <3>1, <3>2, FourStand
  <2>5. /\ Program[39 + 1] = Op("wait_write", "none")
        /\ Program[39 + 2] = Op("command", "enable_keyboard")
    <3>1. Two(SendCommand("enable_keyboard"), Op("wait_write", "none"),
            Op("command", "enable_keyboard"))
      BY WaitOps DEF Words
    <3>2. Holds(Program, 39, SendCommand("enable_keyboard"), 2)
      BY <2>3
    <3> QED BY <3>1, <3>2, TwoStand
  <2>6. /\ Program[41 + 1] = Op("change", "enable")
        /\ Program[41 + 2] = Op("wait_write", "none")
        /\ Program[41 + 3] = Op("command", "write_config")
        /\ Program[41 + 4] = Op("data", "config")
    <3>1. Four(WriteConfig("enable"), Op("change", "enable"), Op("wait_write", "none"),
            Op("command", "write_config"), Op("data", "config"))
      BY WriteConfigFour DEF Words
    <3>2. Holds(Program, 41, WriteConfig("enable"), 4)
      BY <2>3
    <3> QED BY <3>1, <3>2, FourStand
  <2> QED BY <2>4, <2>5, <2>6
<1>9. /\ Program[46] = Op("wait_write", "none") /\ Program[47] = Op("command", "pulse")
  <2>1. Holds(Program, 45, ps2_reset, 2)
    BY ProgramParts
  <2>2. Two(ps2_reset, Op("wait_write", "none"), Op("command", "pulse"))
    BY WaitOps DEF Words, ps2_reset
  <2>3. /\ Program[45 + 1] = Op("wait_write", "none")
        /\ Program[45 + 2] = Op("command", "pulse")
    BY <2>1, <2>2, TwoStand
  <2> QED BY <2>3
<1>10. /\ Program[48] = Op("if_port_1", "none")
  <2>1. Holds(Program, 47, <<Op("if_port_1", "none")>>, 1)
    BY ProgramParts
  <2>2. Program[47 + 1] = Op("if_port_1", "none")
    BY <2>1 DEF Holds
  <2> QED BY <2>2
<1>11. /\ Program[49] = Op("wait_write", "none")
      /\ Program[50] = Op("data", "disable_scanning")
      /\ Program[51] = Op("wait_read", "none") /\ Program[52] = Op("read", "ack")
      /\ Program[53] = Op("wait_write", "none") /\ Program[54] = Op("data", "identify")
      /\ Program[55] = Op("wait_read", "none") /\ Program[56] = Op("read", "ack")
      /\ Program[57] = Op("wait_read", "none") /\ Program[58] = Op("read", "first")
      /\ Program[59] = Op("read", "second") /\ Program[60] = Op("wait_write", "none")
      /\ Program[61] = Op("data", "enable_scanning")
  <2>1. Holds(Program, 48, ps2_identify, 13)
    BY ProgramParts
  <2>2. /\ Holds(ps2_identify, 0, SendData("disable_scanning"), 2)
        /\ Holds(ps2_identify, 2, WaitAndRead("ack"), 2)
        /\ Holds(ps2_identify, 4, SendData("identify"), 2)
        /\ Holds(ps2_identify, 6, WaitAndRead("ack"), 2)
        /\ Holds(ps2_identify, 8, WaitAndRead("first"), 2)
        /\ Holds(ps2_identify, 10, <<Op("read", "second")>>, 1)
        /\ Holds(ps2_identify, 11, SendData("enable_scanning"), 2)
    BY IdentifyOps DEF Words
  <2>3. /\ Holds(Program, 48 + 0, SendData("disable_scanning"), 2)
        /\ Holds(Program, 48 + 2, WaitAndRead("ack"), 2)
        /\ Holds(Program, 48 + 4, SendData("identify"), 2)
        /\ Holds(Program, 48 + 6, WaitAndRead("ack"), 2)
        /\ Holds(Program, 48 + 8, WaitAndRead("first"), 2)
        /\ Holds(Program, 48 + 10, <<Op("read", "second")>>, 1)
        /\ Holds(Program, 48 + 11, SendData("enable_scanning"), 2)
    <3> DEFINE part == ps2_identify
    <3>1. Holds(Program, 48, part, 13)
      BY <2>1
    <3>2. /\ Holds(part, 0, SendData("disable_scanning"), 2)
          /\ Holds(part, 2, WaitAndRead("ack"), 2)
          /\ Holds(part, 4, SendData("identify"), 2)
          /\ Holds(part, 6, WaitAndRead("ack"), 2)
          /\ Holds(part, 8, WaitAndRead("first"), 2)
          /\ Holds(part, 10, <<Op("read", "second")>>, 1)
          /\ Holds(part, 11, SendData("enable_scanning"), 2)
      BY <2>2
    <3> HIDE DEF part
    <3>3. Holds(Program, 48 + 0, SendData("disable_scanning"), 2)
      BY <3>1, <3>2, Within
    <3>4. Holds(Program, 48 + 2, WaitAndRead("ack"), 2)
      BY <3>1, <3>2, Within
    <3>5. Holds(Program, 48 + 4, SendData("identify"), 2)
      BY <3>1, <3>2, Within
    <3>6. Holds(Program, 48 + 6, WaitAndRead("ack"), 2)
      BY <3>1, <3>2, Within
    <3>7. Holds(Program, 48 + 8, WaitAndRead("first"), 2)
      BY <3>1, <3>2, Within
    <3>8. Holds(Program, 48 + 10, <<Op("read", "second")>>, 1)
      BY <3>1, <3>2, Within
    <3>9. Holds(Program, 48 + 11, SendData("enable_scanning"), 2)
      BY <3>1, <3>2, Within
    <3> QED BY <3>3, <3>4, <3>5, <3>6, <3>7, <3>8, <3>9
  <2>4. /\ Program[48 + 1] = Op("wait_write", "none")
        /\ Program[48 + 2] = Op("data", "disable_scanning")
    <3>1. Two(SendData("disable_scanning"), Op("wait_write", "none"),
            Op("data", "disable_scanning"))
      BY WaitOps DEF Words
    <3>2. Holds(Program, 48, SendData("disable_scanning"), 2)
      BY <2>3
    <3> QED BY <3>1, <3>2, TwoStand
  <2>5. /\ Program[50 + 1] = Op("wait_read", "none") /\ Program[50 + 2] = Op("read", "ack")
    <3>1. Two(WaitAndRead("ack"), Op("wait_read", "none"), Op("read", "ack"))
      BY WaitOps DEF Words
    <3>2. Holds(Program, 50, WaitAndRead("ack"), 2)
      BY <2>3
    <3> QED BY <3>1, <3>2, TwoStand
  <2>6. /\ Program[52 + 1] = Op("wait_write", "none")
        /\ Program[52 + 2] = Op("data", "identify")
    <3>1. Two(SendData("identify"), Op("wait_write", "none"), Op("data", "identify"))
      BY WaitOps DEF Words
    <3>2. Holds(Program, 52, SendData("identify"), 2)
      BY <2>3
    <3> QED BY <3>1, <3>2, TwoStand
  <2>7. /\ Program[54 + 1] = Op("wait_read", "none") /\ Program[54 + 2] = Op("read", "ack")
    <3>1. Two(WaitAndRead("ack"), Op("wait_read", "none"), Op("read", "ack"))
      BY WaitOps DEF Words
    <3>2. Holds(Program, 54, WaitAndRead("ack"), 2)
      BY <2>3
    <3> QED BY <3>1, <3>2, TwoStand
  <2>8. /\ Program[56 + 1] = Op("wait_read", "none")
        /\ Program[56 + 2] = Op("read", "first")
    <3>1. Two(WaitAndRead("first"), Op("wait_read", "none"), Op("read", "first"))
      BY WaitOps DEF Words
    <3>2. Holds(Program, 56, WaitAndRead("first"), 2)
      BY <2>3
    <3> QED BY <3>1, <3>2, TwoStand
  <2>9. /\ Program[58 + 1] = Op("read", "second")
    BY <2>3 DEF Holds
  <2>10. /\ Program[59 + 1] = Op("wait_write", "none")
        /\ Program[59 + 2] = Op("data", "enable_scanning")
    <3>1. Two(SendData("enable_scanning"), Op("wait_write", "none"), Op("data", "enable_scanning"))
      BY WaitOps DEF Words
    <3>2. Holds(Program, 59, SendData("enable_scanning"), 2)
      BY <2>3
    <3> QED BY <3>1, <3>2, TwoStand
  <2> QED BY <2>4, <2>5, <2>6, <2>7, <2>8, <2>9, <2>10
<1> QED BY <1>1, <1>2, <1>3, <1>4, <1>5, <1>6, <1>7, <1>8, <1>9, <1>10, <1>11

\* Where each operation stands, and its argument.
LEMMA Positions ==
    ASSUME NEW i \in 1..61
    PROVE  /\ Program[i].op = "wait_write" =>
                 i \in {1, 3, 6, 11, 14, 18, 22, 27, 31, 36, 40, 43, 46, 49, 53, 60}
           /\ Program[i].op = "wait_read" => i \in {8, 16, 20, 24, 29, 33, 38, 51, 55, 57}
           /\ Program[i].op = "flush" => i \in {5}
           /\ Program[i].op = "if_port_1" => i \in {48}
           /\ Program[i].op = "command" =>
                 \/ i = 2 /\ Program[i].arg = "disable_keyboard"
                 \/ i = 4 /\ Program[i].arg = "disable_mouse"
                 \/ i = 7 /\ Program[i].arg = "read_config"
                 \/ i = 12 /\ Program[i].arg = "write_config"
                 \/ i = 15 /\ Program[i].arg = "self_test"
                 \/ i = 19 /\ Program[i].arg = "test_1"
                 \/ i = 23 /\ Program[i].arg = "read_config"
                 \/ i = 28 /\ Program[i].arg = "test_2"
                 \/ i = 32 /\ Program[i].arg = "read_config"
                 \/ i = 37 /\ Program[i].arg = "read_config"
                 \/ i = 41 /\ Program[i].arg = "enable_keyboard"
                 \/ i = 44 /\ Program[i].arg = "write_config"
                 \/ i = 47 /\ Program[i].arg = "pulse"
           /\ Program[i].op = "data" =>
                 \/ i = 13 /\ Program[i].arg = "config"
                 \/ i = 45 /\ Program[i].arg = "config"
                 \/ i = 50 /\ Program[i].arg = "disable_scanning"
                 \/ i = 54 /\ Program[i].arg = "identify"
                 \/ i = 61 /\ Program[i].arg = "enable_scanning"
           /\ Program[i].op = "read" =>
                 \/ i = 9 /\ Program[i].arg = "config"
                 \/ i = 17 /\ Program[i].arg = "self_test"
                 \/ i = 21 /\ Program[i].arg = "test"
                 \/ i = 25 /\ Program[i].arg = "config"
                 \/ i = 30 /\ Program[i].arg = "test"
                 \/ i = 34 /\ Program[i].arg = "config"
                 \/ i = 39 /\ Program[i].arg = "config"
                 \/ i = 52 /\ Program[i].arg = "ack"
                 \/ i = 56 /\ Program[i].arg = "ack"
                 \/ i = 58 /\ Program[i].arg = "first"
                 \/ i = 59 /\ Program[i].arg = "second"
           /\ Program[i].op = "change" =>
                 \/ i = 10 /\ Program[i].arg = "toggle"
                 \/ i = 42 /\ Program[i].arg = "enable"
           /\ Program[i].op = "port" =>
                 \/ i = 26 /\ Program[i].arg = 1
                 \/ i = 35 /\ Program[i].arg = 2
<1>1. \/ i = 1 \/ i = 2 \/ i = 3 \/ i = 4 \/ i = 5 \/ i = 6 \/ i = 7 \/ i = 8 \/ i = 9 \/ i = 10
      \/ i = 11 \/ i = 12 \/ i = 13 \/ i = 14 \/ i = 15 \/ i = 16 \/ i = 17 \/ i = 18 \/ i = 19 \/ i = 20
      \/ i = 21 \/ i = 22 \/ i = 23 \/ i = 24 \/ i = 25 \/ i = 26 \/ i = 27 \/ i = 28 \/ i = 29 \/ i = 30
      \/ i = 31 \/ i = 32 \/ i = 33 \/ i = 34 \/ i = 35 \/ i = 36 \/ i = 37 \/ i = 38 \/ i = 39 \/ i = 40
      \/ i = 41 \/ i = 42 \/ i = 43 \/ i = 44 \/ i = 45 \/ i = 46 \/ i = 47 \/ i = 48 \/ i = 49 \/ i = 50
      \/ i = 51 \/ i = 52 \/ i = 53 \/ i = 54 \/ i = 55 \/ i = 56 \/ i = 57 \/ i = 58 \/ i = 59 \/ i = 60
      \/ i = 61
  OBVIOUS
<1> QED BY <1>1, ProgramOps DEF Op

\* What the driver reads, and where.
LEMMA ReadsStand ==
    ASSUME NEW i \in 1..61, Program[i].op = "read"
    PROVE  \/ i \in {9, 25, 34, 39} /\ Program[i].arg = "config"
           \/ i = 17 /\ Program[i].arg = "self_test"
           \/ i \in {21, 30} /\ Program[i].arg = "test"
           \/ i \in {52, 56} /\ Program[i].arg = "ack"
           \/ i = 58 /\ Program[i].arg = "first"
           \/ i = 59 /\ Program[i].arg = "second"
<1>1. \/ i = 9 /\ Program[i].arg = "config"
      \/ i = 17 /\ Program[i].arg = "self_test"
      \/ i = 21 /\ Program[i].arg = "test"
      \/ i = 25 /\ Program[i].arg = "config"
      \/ i = 30 /\ Program[i].arg = "test"
      \/ i = 34 /\ Program[i].arg = "config"
      \/ i = 39 /\ Program[i].arg = "config"
      \/ i = 52 /\ Program[i].arg = "ack"
      \/ i = 56 /\ Program[i].arg = "ack"
      \/ i = 58 /\ Program[i].arg = "first"
      \/ i = 59 /\ Program[i].arg = "second"
  BY Positions
<1> QED BY <1>1

----------------------------------------------------------------------------
(* What the handler makes of the bytes that are under way.                 *)

Byte == 0..255
Modifiers == {"shift", "control", "alt"}

\* A state of the handler: what it waits for and the modifiers that are on.
States == [where : {"code", "multimedia", "released", "released multimedia"},
           on : SUBSET Modifiers]

\* The modifier a byte is the code of, with or without a prefix.
Names(d) == (IF d = ALT THEN {"alt"} ELSE {})
                \cup (IF d = CONTROL THEN {"control"} ELSE {})
PlainNames(d) == Names(d) \cup (IF d \in ShiftReleases THEN {"shift"} ELSE {})

\* The state after the next byte.
AfterCode(g, d) ==
    [where |-> IF d = MULTIMEDIA THEN "multimedia"
               ELSE IF d = KEY_RELEASED THEN "released" ELSE "code",
     on |-> g.on \cup PlainNames(d)]
AfterPrefix(g, d) ==
    [where |-> IF d = KEY_RELEASED THEN "released" ELSE "code", on |-> g.on \cup Names(d)]
AfterRelease(g, d) ==
    [where |-> IF d = MULTIMEDIA THEN "released multimedia" ELSE "code",
     on |-> g.on \ PlainNames(d)]
AfterBoth(g, d) == [where |-> "code", on |-> g.on \ Names(d)]

Step(g, d) ==
    IF g.where = "code" THEN AfterCode(g, d)
    ELSE IF g.where = "multimedia" THEN AfterPrefix(g, d)
    ELSE IF g.where = "released" THEN AfterRelease(g, d) ELSE AfterBoth(g, d)

\* The bytes s lead from g to h, by way of the states r.
IsRun(r, g, s, h) ==
    /\ r \in [0..Len(s) -> States]
    /\ r[0] = g /\ r[Len(s)] = h
    /\ \A i \in 1..Len(s) : r[i] = Step(r[i - 1], s[i])
Leads(g, s, h) == \E r : IsRun(r, g, s, h)

\* The step of a state is a state.
LEMMA StepIsState ==
    ASSUME NEW g \in States, NEW d
    PROVE  Step(g, d) \in States
BY DEF States, Step, AfterCode, AfterPrefix, AfterRelease, AfterBoth, Names, PlainNames, Modifiers

\* Which step it is depends on what the handler waits for.
LEMMA StepIs ==
    ASSUME NEW g, NEW d, NEW w, g.where = w
    PROVE  /\ w = "code" => Step(g, d) = AfterCode(g, d)
           /\ w = "multimedia" => Step(g, d) = AfterPrefix(g, d)
           /\ w = "released" => Step(g, d) = AfterRelease(g, d)
           /\ w = "released multimedia" => Step(g, d) = AfterBoth(g, d)
BY DEF Step

\* No bytes, or none the handler looks for, leave its state as it is.
LEMMA NothingHandled ==
    ASSUME NEW g \in States, g.where = "code", NEW s \in Seq(Byte),
           \A i \in 1..Len(s) : s[i] \notin Handled
    PROVE  Leads(g, s, g)
<1>1. Len(s) \in Nat
  BY LenProperties
<1>2. ASSUME NEW d, d \notin Handled PROVE Step(g, d) = g
  <2>1. PlainNames(d) = {} /\ d # MULTIMEDIA /\ d # KEY_RELEASED
    BY <1>2 DEF PlainNames, Names, Handled, ShiftReleases
  <2>2. Step(g, d) = [where |-> "code", on |-> g.on]
    BY <2>1 DEF Step, AfterCode
  <2> QED BY <2>2 DEF States
<1> DEFINE r == [i \in 0..Len(s) |-> g]
<1>3. r \in [0..Len(s) -> States] /\ r[0] = g /\ r[Len(s)] = g
  BY <1>1
<1>4. ASSUME NEW i \in 1..Len(s) PROVE r[i] = Step(r[i - 1], s[i])
  <2>1. r[i] = g /\ r[i - 1] = g
    BY <1>1
  <2> QED BY <2>1, <1>2
<1> HIDE DEF r
<1> QED BY <1>3, <1>4 DEF Leads, IsRun

\* Bytes lead where the rest of them leads from the state after the first.
LEMMA FirstByte ==
    ASSUME NEW g, NEW h, NEW s \in Seq(Byte), s # <<>>, Leads(g, s, h)
    PROVE  Leads(Step(g, Head(s)), Tail(s), h)
<1>1. PICK r : IsRun(r, g, s, h)
  BY DEF Leads
<1>2. /\ Tail(s) \in Seq(Byte) /\ Len(s) \in Nat \ {0} /\ Len(Tail(s)) = Len(s) - 1
      /\ \A i \in 1..Len(Tail(s)) : Tail(s)[i] = s[i + 1]
      /\ Head(s) = s[1]
  BY HeadTailProperties, EmptySeq
<1> DEFINE n == Len(s)
           t == Tail(s)
           q == [i \in 0..(n - 1) |-> r[i + 1]]
<1>3. n \in Nat \ {0} /\ Len(t) = n - 1 /\ \A i \in 1..(n - 1) : t[i] = s[i + 1]
  BY <1>2
<1>4. /\ r \in [0..n -> States] /\ r[0] = g /\ r[n] = h
      /\ \A i \in 1..n : r[i] = Step(r[i - 1], s[i])
  BY <1>1 DEF IsRun
<1> HIDE DEF n, t
<1>5. q \in [0..(n - 1) -> States] /\ q[n - 1] = h
  BY <1>3, <1>4
<1>6. q[0] = Step(g, s[1])
  <2>1. r[1] = Step(r[1 - 1], s[1])
    BY <1>3, <1>4
  <2> QED BY <1>3, <1>4, <2>1
<1>7. ASSUME NEW i \in 1..(n - 1) PROVE q[i] = Step(q[i - 1], t[i])
  <2>1. i + 1 \in 1..n /\ (i + 1) - 1 = i /\ (i - 1) + 1 = i /\ i \in 0..(n - 1) /\ i - 1 \in 0..(n - 1)
    BY <1>3
  <2>2. r[i + 1] = Step(r[i], s[i + 1])
    BY <1>4, <2>1
  <2> QED BY <1>3, <2>1, <2>2
<1>8. q \in [0..Len(t) -> States] /\ q[Len(t)] = h
  BY <1>3, <1>5
<1>9. \A i \in 1..Len(t) : q[i] = Step(q[i - 1], t[i])
  BY <1>3, <1>7
<1> HIDE DEF q
<1>10. Leads(Step(g, s[1]), t, h)
  BY <1>6, <1>8, <1>9 DEF Leads, IsRun
<1> QED BY <1>2, <1>10 DEF t

\* One after the other.
LEMMA OneAfterTheOther ==
    ASSUME NEW g, NEW h, NEW f, NEW s \in Seq(Byte), NEW t \in Seq(Byte),
           Leads(g, s, h), Leads(h, t, f)
    PROVE  Leads(g, s \o t, f)
<1>1. PICK r : IsRun(r, g, s, h)
  BY DEF Leads
<1>2. PICK q : IsRun(q, h, t, f)
  BY DEF Leads
<1> DEFINE m == Len(s)
           n == Len(t)
           u == s \o t
           p == [i \in 0..(m + n) |-> IF i <= m THEN r[i] ELSE q[i - m]]
<1>3. /\ m \in Nat /\ n \in Nat /\ Len(u) = m + n
      /\ \A i \in 1..(m + n) : u[i] = IF i <= m THEN s[i] ELSE t[i - m]
  BY ConcatProperties, LenProperties
<1>4. /\ r \in [0..m -> States] /\ r[0] = g /\ r[m] = h
      /\ \A i \in 1..m : r[i] = Step(r[i - 1], s[i])
  BY <1>1 DEF IsRun
<1>5. /\ q \in [0..n -> States] /\ q[0] = h /\ q[n] = f
      /\ \A i \in 1..n : q[i] = Step(q[i - 1], t[i])
  BY <1>2 DEF IsRun
<1> HIDE DEF m, n, u
<1>6. p \in [0..(m + n) -> States]
  BY <1>3, <1>4, <1>5
<1>7. p[0] = g
  BY <1>3, <1>4
<1>8. p[m + n] = f
  <2>1. CASE n = 0
    BY <1>3, <1>4, <1>5, <2>1
  <2>2. CASE n # 0
    <3>1. ~(m + n <= m) /\ (m + n) - m = n /\ m + n \in 0..(m + n)
      BY <1>3, <2>2
    <3> QED BY <1>5, <3>1
  <2> QED BY <2>1, <2>2
<1>9. ASSUME NEW i \in 1..(m + n) PROVE p[i] = Step(p[i - 1], u[i])
  <2>1. CASE i <= m
    <3>1. p[i] = r[i] /\ p[i - 1] = r[i - 1] /\ u[i] = s[i] /\ i \in 1..m
      BY <1>3, <2>1
    <3> QED BY <1>4, <3>1
  <2>2. CASE ~(i <= m)
    <3>1. /\ i - m \in 1..n /\ i \in 0..(m + n) /\ i - 1 \in 0..(m + n)
          /\ (i - 1) - m = (i - m) - 1
      BY <1>3, <2>2
    <3>2. p[i] = q[i - m] /\ u[i] = t[i - m]
      BY <1>3, <2>2, <3>1
    <3>3. p[i - 1] = q[(i - m) - 1]
      <4>1. CASE i - 1 = m
        BY <1>3, <1>4, <1>5, <3>1, <4>1
      <4>2. CASE i - 1 # m
        <5>1. ~(i - 1 <= m)
          BY <1>3, <2>2, <4>2
        <5> QED BY <3>1, <5>1
      <4> QED BY <4>1, <4>2
    <3> QED BY <1>5, <3>1, <3>2, <3>3
  <2> QED BY <2>1, <2>2
<1> HIDE DEF p
<1>10. Leads(g, u, f)
  <2>1. Len(u) = m + n
    BY <1>3
  <2>2. IsRun(p, g, u, f)
    BY <1>6, <1>7, <1>8, <1>9, <2>1 DEF IsRun
  <2> QED BY <2>2 DEF Leads
<1> QED BY <1>10 DEF u

\* A code of one byte leads through its states.
LEMMA OneByte ==
    ASSUME NEW g \in States, NEW a \in Byte
    PROVE  <<a>> \in Seq(Byte) /\ Leads(g, <<a>>, Step(g, a))
<1> DEFINE s == <<a>>
           h1 == Step(g, a)
           r == [i \in 0..1 |-> IF i = 0 THEN g ELSE h1]
<1>1. s \in Seq(Byte) /\ Len(s) = 1 /\ s[1] = a
  OBVIOUS
<1>2. h1 \in States
  BY StepIsState
<1>3. h1 = Step(g, s[1])
  BY <1>1
<1> HIDE DEF s, h1
<1>4. /\ r \in [0..1 -> States] /\ r[0] = g /\ r[1] = h1
      /\ \A i \in 1..1 : r[i] = Step(r[i - 1], s[i])
  <2>1. r \in [0..1 -> States]
    BY <1>2
  <2>2. r[0] = g /\ r[1] = h1
    OBVIOUS
  <2>3. ASSUME NEW i \in 1..1 PROVE r[i] = Step(r[i - 1], s[i])
    <3>1. CASE i = 1
      <4>1. i - 1 = 0
        BY <3>1
      <4> HIDE DEF r
      <4> QED BY <1>3, <2>2, <3>1, <4>1
    <3> QED BY <3>1
  <2> QED BY <2>1, <2>2, <2>3
<1> HIDE DEF r
<1>5. Leads(g, s, h1)
  BY <1>1, <1>4 DEF Leads, IsRun
<1> QED BY <1>1, <1>5 DEF s, h1

\* A code of two bytes leads through its states.
LEMMA TwoBytes ==
    ASSUME NEW g \in States, NEW a \in Byte, NEW b \in Byte
    PROVE  <<a, b>> \in Seq(Byte) /\ Leads(g, <<a, b>>, Step(Step(g, a), b))
<1> DEFINE s == <<a, b>>
           h1 == Step(g, a)
           h2 == Step(h1, b)
           r == [i \in 0..2 |-> IF i = 0 THEN g ELSE IF i = 1 THEN h1 ELSE h2]
<1>1. s \in Seq(Byte) /\ Len(s) = 2 /\ s[1] = a /\ s[2] = b
  OBVIOUS
<1>2. h1 \in States /\ h2 \in States
  BY StepIsState
<1>3. h1 = Step(g, s[1]) /\ h2 = Step(h1, s[2])
  BY <1>1
<1> HIDE DEF s, h1, h2
<1>4. /\ r \in [0..2 -> States] /\ r[0] = g /\ r[2] = h2
      /\ \A i \in 1..2 : r[i] = Step(r[i - 1], s[i])
  <2>1. r \in [0..2 -> States]
    BY <1>2
  <2>2. r[0] = g /\ r[1] = h1 /\ r[2] = h2
    OBVIOUS
  <2>3. ASSUME NEW i \in 1..2 PROVE r[i] = Step(r[i - 1], s[i])
    <3>1. CASE i = 1
      <4>1. i - 1 = 0
        BY <3>1
      <4> HIDE DEF r
      <4> QED BY <1>3, <2>2, <3>1, <4>1
    <3>2. CASE i = 2
      <4>1. i - 1 = 1
        BY <3>2
      <4> HIDE DEF r
      <4> QED BY <1>3, <2>2, <3>2, <4>1
    <3> QED BY <3>1, <3>2
  <2> QED BY <2>1, <2>2, <2>3
<1> HIDE DEF r
<1>5. Leads(g, s, h2)
  BY <1>1, <1>4 DEF Leads, IsRun
<1> QED BY <1>1, <1>5 DEF s, h1, h2

\* A code of three bytes leads through its states.
LEMMA ThreeBytes ==
    ASSUME NEW g \in States, NEW a \in Byte, NEW b \in Byte, NEW c \in Byte
    PROVE  <<a, b, c>> \in Seq(Byte) /\ Leads(g, <<a, b, c>>, Step(Step(Step(g, a), b), c))
<1> DEFINE s == <<a, b, c>>
           h1 == Step(g, a)
           h2 == Step(h1, b)
           h3 == Step(h2, c)
           r == [i \in 0..3 |-> IF i = 0 THEN g ELSE IF i = 1 THEN h1 ELSE IF i = 2 THEN h2 ELSE h3]
<1>1. s \in Seq(Byte) /\ Len(s) = 3 /\ s[1] = a /\ s[2] = b /\ s[3] = c
  OBVIOUS
<1>2. h1 \in States /\ h2 \in States /\ h3 \in States
  BY StepIsState
<1>3. h1 = Step(g, s[1]) /\ h2 = Step(h1, s[2]) /\ h3 = Step(h2, s[3])
  BY <1>1
<1> HIDE DEF s, h1, h2, h3
<1>4. /\ r \in [0..3 -> States] /\ r[0] = g /\ r[3] = h3
      /\ \A i \in 1..3 : r[i] = Step(r[i - 1], s[i])
  <2>1. r \in [0..3 -> States]
    BY <1>2
  <2>2. r[0] = g /\ r[1] = h1 /\ r[2] = h2 /\ r[3] = h3
    OBVIOUS
  <2>3. ASSUME NEW i \in 1..3 PROVE r[i] = Step(r[i - 1], s[i])
    <3>1. CASE i = 1
      <4>1. i - 1 = 0
        BY <3>1
      <4> HIDE DEF r
      <4> QED BY <1>3, <2>2, <3>1, <4>1
    <3>2. CASE i = 2
      <4>1. i - 1 = 1
        BY <3>2
      <4> HIDE DEF r
      <4> QED BY <1>3, <2>2, <3>2, <4>1
    <3>3. CASE i = 3
      <4>1. i - 1 = 2
        BY <3>3
      <4> HIDE DEF r
      <4> QED BY <1>3, <2>2, <3>3, <4>1
    <3> QED BY <3>1, <3>2, <3>3
  <2> QED BY <2>1, <2>2, <2>3
<1> HIDE DEF r
<1>5. Leads(g, s, h3)
  BY <1>1, <1>4 DEF Leads, IsRun
<1> QED BY <1>1, <1>5 DEF s, h1, h2, h3

\* A code of four bytes leads through its states.
LEMMA FourBytes ==
    ASSUME NEW g \in States, NEW a \in Byte, NEW b \in Byte, NEW c \in Byte, NEW d \in Byte
    PROVE  /\ <<a, b, c, d>> \in Seq(Byte)
           /\ Leads(g, <<a, b, c, d>>, Step(Step(Step(Step(g, a), b), c), d))
<1> DEFINE s == <<a, b, c, d>>
           h1 == Step(g, a)
           h2 == Step(h1, b)
           h3 == Step(h2, c)
           h4 == Step(h3, d)
           r == [i \in 0..4 |-> IF i = 0 THEN g ELSE IF i = 1 THEN h1 ELSE IF i = 2 THEN h2
                  ELSE IF i = 3 THEN h3 ELSE h4]
<1>1. s \in Seq(Byte) /\ Len(s) = 4 /\ s[1] = a /\ s[2] = b /\ s[3] = c /\ s[4] = d
  OBVIOUS
<1>2. h1 \in States /\ h2 \in States /\ h3 \in States /\ h4 \in States
  BY StepIsState
<1>3. h1 = Step(g, s[1]) /\ h2 = Step(h1, s[2]) /\ h3 = Step(h2, s[3]) /\ h4 = Step(h3, s[4])
  BY <1>1
<1> HIDE DEF s, h1, h2, h3, h4
<1>4. /\ r \in [0..4 -> States] /\ r[0] = g /\ r[4] = h4
      /\ \A i \in 1..4 : r[i] = Step(r[i - 1], s[i])
  <2>1. r \in [0..4 -> States]
    BY <1>2
  <2>2. r[0] = g /\ r[1] = h1 /\ r[2] = h2 /\ r[3] = h3 /\ r[4] = h4
    OBVIOUS
  <2>3. ASSUME NEW i \in 1..4 PROVE r[i] = Step(r[i - 1], s[i])
    <3>1. CASE i = 1
      <4>1. i - 1 = 0
        BY <3>1
      <4> HIDE DEF r
      <4> QED BY <1>3, <2>2, <3>1, <4>1
    <3>2. CASE i = 2
      <4>1. i - 1 = 1
        BY <3>2
      <4> HIDE DEF r
      <4> QED BY <1>3, <2>2, <3>2, <4>1
    <3>3. CASE i = 3
      <4>1. i - 1 = 2
        BY <3>3
      <4> HIDE DEF r
      <4> QED BY <1>3, <2>2, <3>3, <4>1
    <3>4. CASE i = 4
      <4>1. i - 1 = 3
        BY <3>4
      <4> HIDE DEF r
      <4> QED BY <1>3, <2>2, <3>4, <4>1
    <3> QED BY <3>1, <3>2, <3>3, <3>4
  <2> QED BY <2>1, <2>2, <2>3
<1> HIDE DEF r
<1>5. Leads(g, s, h4)
  BY <1>1, <1>4 DEF Leads, IsRun
<1> QED BY <1>1, <1>5 DEF s, h1, h2, h3, h4

\* A code of six bytes leads through its states.
LEMMA SixBytes ==
    ASSUME NEW g \in States, NEW a \in Byte, NEW b \in Byte, NEW c \in Byte, NEW d \in Byte,
             NEW e \in Byte, NEW f \in Byte
    PROVE  /\ <<a, b, c, d, e, f>> \in Seq(Byte)
           /\ Leads(g, <<a, b, c, d, e, f>>,
                    Step(Step(Step(Step(Step(Step(g, a), b), c), d), e), f))
<1> DEFINE s == <<a, b, c, d, e, f>>
           h1 == Step(g, a)
           h2 == Step(h1, b)
           h3 == Step(h2, c)
           h4 == Step(h3, d)
           h5 == Step(h4, e)
           h6 == Step(h5, f)
           r == [i \in 0..6 |-> IF i = 0 THEN g ELSE IF i = 1 THEN h1 ELSE IF i = 2 THEN h2
                  ELSE IF i = 3 THEN h3 ELSE IF i = 4 THEN h4 ELSE IF i = 5 THEN h5 ELSE h6]
<1>1. s \in Seq(Byte) /\ Len(s) = 6 /\ s[1] = a /\ s[2] = b /\ s[3] = c /\ s[4] = d /\ s[5] = e /\ s[6] = f
  OBVIOUS
<1>2. h1 \in States /\ h2 \in States /\ h3 \in States /\ h4 \in States /\ h5 \in States /\ h6 \in States
  BY StepIsState
<1>3. /\ h1 = Step(g, s[1]) /\ h2 = Step(h1, s[2]) /\ h3 = Step(h2, s[3])
      /\ h4 = Step(h3, s[4]) /\ h5 = Step(h4, s[5]) /\ h6 = Step(h5, s[6])
  BY <1>1
<1> HIDE DEF s, h1, h2, h3, h4, h5, h6
<1>4. /\ r \in [0..6 -> States] /\ r[0] = g /\ r[6] = h6
      /\ \A i \in 1..6 : r[i] = Step(r[i - 1], s[i])
  <2>1. r \in [0..6 -> States]
    BY <1>2
  <2>2. r[0] = g /\ r[1] = h1 /\ r[2] = h2 /\ r[3] = h3 /\ r[4] = h4 /\ r[5] = h5 /\ r[6] = h6
    OBVIOUS
  <2>3. ASSUME NEW i \in 1..6 PROVE r[i] = Step(r[i - 1], s[i])
    <3>1. CASE i = 1
      <4>1. i - 1 = 0
        BY <3>1
      <4> HIDE DEF r
      <4> QED BY <1>3, <2>2, <3>1, <4>1
    <3>2. CASE i = 2
      <4>1. i - 1 = 1
        BY <3>2
      <4> HIDE DEF r
      <4> QED BY <1>3, <2>2, <3>2, <4>1
    <3>3. CASE i = 3
      <4>1. i - 1 = 2
        BY <3>3
      <4> HIDE DEF r
      <4> QED BY <1>3, <2>2, <3>3, <4>1
    <3>4. CASE i = 4
      <4>1. i - 1 = 3
        BY <3>4
      <4> HIDE DEF r
      <4> QED BY <1>3, <2>2, <3>4, <4>1
    <3>5. CASE i = 5
      <4>1. i - 1 = 4
        BY <3>5
      <4> HIDE DEF r
      <4> QED BY <1>3, <2>2, <3>5, <4>1
    <3>6. CASE i = 6
      <4>1. i - 1 = 5
        BY <3>6
      <4> HIDE DEF r
      <4> QED BY <1>3, <2>2, <3>6, <4>1
    <3> QED BY <3>1, <3>2, <3>3, <3>4, <3>5, <3>6
  <2> QED BY <2>1, <2>2, <2>3
<1> HIDE DEF r
<1>5. Leads(g, s, h6)
  BY <1>1, <1>4 DEF Leads, IsRun
<1> QED BY <1>1, <1>5 DEF s, h1, h2, h3, h4, h5, h6

\* What a key turns on when it is pressed, and off when it is released.
KeyModifier(k) ==
    IF k \in {"lshift", "rshift"} THEN {"shift"}
    ELSE IF k \in {"lctrl", "rctrl"} THEN {"control"}
    ELSE IF k = "ralt" THEN {"alt"} ELSE {}

\* The handler's states along the codes.
LEMMA Along ==
    ASSUME NEW g \in States
    PROVE  /\ g.where = "code" =>
                 /\ \A d \in {LEFT_SHIFT, RIGHT_SHIFT} :
                       Step(g, d) = [where |-> "code", on |-> g.on \cup {"shift"}]
                 /\ Step(g, CONTROL) = [where |-> "code", on |-> g.on \cup {"control"}]
                 /\ Step(g, 28) = g
                 /\ Step(g, MULTIMEDIA) = [where |-> "multimedia", on |-> g.on]
                 /\ Step(g, KEY_RELEASED) = [where |-> "released", on |-> g.on]
           /\ g.where = "multimedia" =>
                 /\ Step(g, CONTROL) = [where |-> "code", on |-> g.on \cup {"control"}]
                 /\ Step(g, ALT) = [where |-> "code", on |-> g.on \cup {"alt"}]
                 /\ \A d \in {LEFT_SHIFT, 124} : Step(g, d) = [where |-> "code", on |-> g.on]
                 /\ Step(g, KEY_RELEASED) = [where |-> "released", on |-> g.on]
           /\ g.where = "released" =>
                 /\ \A d \in {LEFT_SHIFT, RIGHT_SHIFT} :
                       Step(g, d) = [where |-> "code", on |-> g.on \ {"shift"}]
                 /\ Step(g, CONTROL) = [where |-> "code", on |-> g.on \ {"control"}]
                 /\ Step(g, ALT) = [where |-> "code", on |-> g.on \ {"alt"}]
                 /\ \A d \in {28, 124} : Step(g, d) = [where |-> "code", on |-> g.on]
<1>1. /\ PlainNames(LEFT_SHIFT) = {"shift"} /\ PlainNames(RIGHT_SHIFT) = {"shift"}
      /\ PlainNames(CONTROL) = {"control"} /\ PlainNames(ALT) = {"alt"}
      /\ PlainNames(MULTIMEDIA) = {} /\ PlainNames(KEY_RELEASED) = {}
      /\ PlainNames(28) = {} /\ PlainNames(124) = {}
      /\ Names(CONTROL) = {"control"} /\ Names(ALT) = {"alt"} /\ Names(LEFT_SHIFT) = {}
      /\ Names(KEY_RELEASED) = {} /\ Names(124) = {}
  BY DEF Names, PlainNames, ShiftReleases, ALT, CONTROL, LEFT_SHIFT, RIGHT_SHIFT, MULTIMEDIA,
         KEY_RELEASED
<1>2. g = [where |-> g.where, on |-> g.on] /\ g.on \in SUBSET Modifiers
  BY DEF States
<1>3. g.on \cup {} = g.on /\ g.on \ {} = g.on
  BY <1>2
<1>4. /\ MULTIMEDIA # KEY_RELEASED /\ 28 \notin {MULTIMEDIA, KEY_RELEASED}
      /\ 124 \notin {MULTIMEDIA, KEY_RELEASED}
      /\ \A d \in {LEFT_SHIFT, RIGHT_SHIFT, CONTROL, ALT} : d # MULTIMEDIA /\ d # KEY_RELEASED
  BY DEF ALT, CONTROL, LEFT_SHIFT, RIGHT_SHIFT, MULTIMEDIA, KEY_RELEASED
<1>5. ASSUME g.where = "code", NEW d
      PROVE  Step(g, d) = AfterCode(g, d)
  BY <1>5, StepIs
<1>6. ASSUME g.where = "multimedia", NEW d
      PROVE  Step(g, d) = AfterPrefix(g, d)
  BY <1>6, StepIs
<1>7. ASSUME g.where = "released", NEW d
      PROVE  Step(g, d) = AfterRelease(g, d)
  BY <1>7, StepIs
<1>8. /\ AfterCode(g, LEFT_SHIFT) = [where |-> "code", on |-> g.on \cup {"shift"}]
      /\ AfterCode(g, RIGHT_SHIFT) = [where |-> "code", on |-> g.on \cup {"shift"}]
      /\ AfterCode(g, CONTROL) = [where |-> "code", on |-> g.on \cup {"control"}]
      /\ AfterCode(g, 28) = [where |-> "code", on |-> g.on]
      /\ AfterCode(g, MULTIMEDIA) = [where |-> "multimedia", on |-> g.on]
      /\ AfterCode(g, KEY_RELEASED) = [where |-> "released", on |-> g.on]
  BY <1>1, <1>3, <1>4 DEF AfterCode
<1>9. /\ AfterPrefix(g, CONTROL) = [where |-> "code", on |-> g.on \cup {"control"}]
      /\ AfterPrefix(g, ALT) = [where |-> "code", on |-> g.on \cup {"alt"}]
      /\ AfterPrefix(g, LEFT_SHIFT) = [where |-> "code", on |-> g.on]
      /\ AfterPrefix(g, 124) = [where |-> "code", on |-> g.on]
      /\ AfterPrefix(g, KEY_RELEASED) = [where |-> "released", on |-> g.on]
  BY <1>1, <1>3, <1>4 DEF AfterPrefix
<1>10. /\ AfterRelease(g, LEFT_SHIFT) = [where |-> "code", on |-> g.on \ {"shift"}]
       /\ AfterRelease(g, RIGHT_SHIFT) = [where |-> "code", on |-> g.on \ {"shift"}]
       /\ AfterRelease(g, CONTROL) = [where |-> "code", on |-> g.on \ {"control"}]
       /\ AfterRelease(g, ALT) = [where |-> "code", on |-> g.on \ {"alt"}]
       /\ AfterRelease(g, 28) = [where |-> "code", on |-> g.on]
       /\ AfterRelease(g, 124) = [where |-> "code", on |-> g.on]
  BY <1>1, <1>3, <1>4 DEF AfterRelease
<1> QED BY <1>2, <1>5, <1>6, <1>7, <1>8, <1>9, <1>10

\* A key that is pressed leaves the handler between two codes, its modifier on.
LEMMA PressLeads ==
    ASSUME NEW k \in DOMAIN Code, NEW g \in States, g.where = "code"
    PROVE  /\ Code[k] \in Seq(Byte)
           /\ \E h \in States : /\ Leads(g, Code[k], h) /\ h.where = "code"
                                /\ h.on = g.on \cup KeyModifier(k)
<1>1. k \in {"a", "lshift", "rshift", "lctrl", "rctrl", "ralt", "prtsc"}
  BY DEF Code
<1>2. CASE k = "a"
  <2>1. Code[k] = <<28>>
    BY <1>2 DEF Code
  <2> DEFINE h0 == g
             h1 == Step(h0, 28)
  <2>2. h1 \in States
    BY StepIsState
  <2>3. h1.where = "code" /\ h1.on = g.on
    <3> DEFINE b == h0
    <3>1. b \in States /\ b.where = "code" /\ b.on = g.on
      BY <2>2
    <3> HIDE DEF b
    <3>2. Step(b, 28).where = "code" /\ Step(b, 28).on = g.on
      BY <3>1, Along
    <3> QED BY <3>2 DEF b
  <2>4. <<28>> \in Seq(Byte) /\ Leads(g, <<28>>, h1)
    <3>1. 28 \in Byte
      BY DEF Byte
    <3> QED BY <3>1, OneByte
  <2>5. h1.on = g.on \cup KeyModifier(k)
    BY <1>2, <2>3 DEF KeyModifier
  <2> HIDE DEF h0, h1
  <2> QED BY <2>1, <2>2, <2>3, <2>4, <2>5
<1>3. CASE k = "lshift"
  <2>1. Code[k] = <<LEFT_SHIFT>>
    BY <1>3 DEF Code
  <2> DEFINE h0 == g
             h1 == Step(h0, LEFT_SHIFT)
  <2>2. h1 \in States
    BY StepIsState
  <2>3. h1.where = "code" /\ h1.on = g.on \cup {"shift"}
    <3> DEFINE b == h0
    <3>1. b \in States /\ b.where = "code" /\ b.on = g.on
      BY <2>2
    <3> HIDE DEF b
    <3>2. Step(b, LEFT_SHIFT).where = "code" /\ Step(b, LEFT_SHIFT).on = g.on \cup {"shift"}
      BY <3>1, Along
    <3> QED BY <3>2 DEF b
  <2>4. <<LEFT_SHIFT>> \in Seq(Byte) /\ Leads(g, <<LEFT_SHIFT>>, h1)
    <3>1. LEFT_SHIFT \in Byte
      BY DEF Byte, LEFT_SHIFT
    <3> QED BY <3>1, OneByte
  <2>5. h1.on = g.on \cup KeyModifier(k)
    BY <1>3, <2>3 DEF KeyModifier
  <2> HIDE DEF h0, h1
  <2> QED BY <2>1, <2>2, <2>3, <2>4, <2>5
<1>4. CASE k = "rshift"
  <2>1. Code[k] = <<RIGHT_SHIFT>>
    BY <1>4 DEF Code
  <2> DEFINE h0 == g
             h1 == Step(h0, RIGHT_SHIFT)
  <2>2. h1 \in States
    BY StepIsState
  <2>3. h1.where = "code" /\ h1.on = g.on \cup {"shift"}
    <3> DEFINE b == h0
    <3>1. b \in States /\ b.where = "code" /\ b.on = g.on
      BY <2>2
    <3> HIDE DEF b
    <3>2. Step(b, RIGHT_SHIFT).where = "code" /\ Step(b, RIGHT_SHIFT).on = g.on \cup {"shift"}
      BY <3>1, Along
    <3> QED BY <3>2 DEF b
  <2>4. <<RIGHT_SHIFT>> \in Seq(Byte) /\ Leads(g, <<RIGHT_SHIFT>>, h1)
    <3>1. RIGHT_SHIFT \in Byte
      BY DEF Byte, RIGHT_SHIFT
    <3> QED BY <3>1, OneByte
  <2>5. h1.on = g.on \cup KeyModifier(k)
    BY <1>4, <2>3 DEF KeyModifier
  <2> HIDE DEF h0, h1
  <2> QED BY <2>1, <2>2, <2>3, <2>4, <2>5
<1>5. CASE k = "lctrl"
  <2>1. Code[k] = <<CONTROL>>
    BY <1>5 DEF Code
  <2> DEFINE h0 == g
             h1 == Step(h0, CONTROL)
  <2>2. h1 \in States
    BY StepIsState
  <2>3. h1.where = "code" /\ h1.on = g.on \cup {"control"}
    <3> DEFINE b == h0
    <3>1. b \in States /\ b.where = "code" /\ b.on = g.on
      BY <2>2
    <3> HIDE DEF b
    <3>2. Step(b, CONTROL).where = "code" /\ Step(b, CONTROL).on = g.on \cup {"control"}
      BY <3>1, Along
    <3> QED BY <3>2 DEF b
  <2>4. <<CONTROL>> \in Seq(Byte) /\ Leads(g, <<CONTROL>>, h1)
    <3>1. CONTROL \in Byte
      BY DEF Byte, CONTROL
    <3> QED BY <3>1, OneByte
  <2>5. h1.on = g.on \cup KeyModifier(k)
    BY <1>5, <2>3 DEF KeyModifier
  <2> HIDE DEF h0, h1
  <2> QED BY <2>1, <2>2, <2>3, <2>4, <2>5
<1>6. CASE k = "rctrl"
  <2>1. Code[k] = <<MULTIMEDIA, CONTROL>>
    BY <1>6 DEF Code
  <2> DEFINE h0 == g
             h1 == Step(h0, MULTIMEDIA)
             h2 == Step(h1, CONTROL)
  <2>2. h1 \in States /\ h2 \in States
    BY StepIsState
  <2>3. h1.where = "multimedia" /\ h1.on = g.on
    <3> DEFINE b == h0
    <3>1. b \in States /\ b.where = "code" /\ b.on = g.on
      BY <2>2
    <3> HIDE DEF b
    <3>2. Step(b, MULTIMEDIA).where = "multimedia" /\ Step(b, MULTIMEDIA).on = g.on
      BY <3>1, Along
    <3> QED BY <3>2 DEF b
  <2>4. h2.where = "code" /\ h2.on = g.on \cup {"control"}
    <3> DEFINE b == h1
    <3>1. b \in States /\ b.where = "multimedia" /\ b.on = g.on
      BY <2>2, <2>3
    <3> HIDE DEF b
    <3>2. Step(b, CONTROL).where = "code" /\ Step(b, CONTROL).on = g.on \cup {"control"}
      BY <3>1, Along
    <3> QED BY <3>2 DEF b
  <2>5. <<MULTIMEDIA, CONTROL>> \in Seq(Byte) /\ Leads(g, <<MULTIMEDIA, CONTROL>>, h2)
    <3>1. MULTIMEDIA \in Byte /\ CONTROL \in Byte
      BY DEF Byte, CONTROL, MULTIMEDIA
    <3> QED BY <3>1, TwoBytes
  <2>6. h2.on = g.on \cup KeyModifier(k)
    BY <1>6, <2>4 DEF KeyModifier
  <2> HIDE DEF h0, h1, h2
  <2> QED BY <2>1, <2>2, <2>4, <2>5, <2>6
<1>7. CASE k = "ralt"
  <2>1. Code[k] = <<MULTIMEDIA, ALT>>
    BY <1>7 DEF Code
  <2> DEFINE h0 == g
             h1 == Step(h0, MULTIMEDIA)
             h2 == Step(h1, ALT)
  <2>2. h1 \in States /\ h2 \in States
    BY StepIsState
  <2>3. h1.where = "multimedia" /\ h1.on = g.on
    <3> DEFINE b == h0
    <3>1. b \in States /\ b.where = "code" /\ b.on = g.on
      BY <2>2
    <3> HIDE DEF b
    <3>2. Step(b, MULTIMEDIA).where = "multimedia" /\ Step(b, MULTIMEDIA).on = g.on
      BY <3>1, Along
    <3> QED BY <3>2 DEF b
  <2>4. h2.where = "code" /\ h2.on = g.on \cup {"alt"}
    <3> DEFINE b == h1
    <3>1. b \in States /\ b.where = "multimedia" /\ b.on = g.on
      BY <2>2, <2>3
    <3> HIDE DEF b
    <3>2. Step(b, ALT).where = "code" /\ Step(b, ALT).on = g.on \cup {"alt"}
      BY <3>1, Along
    <3> QED BY <3>2 DEF b
  <2>5. <<MULTIMEDIA, ALT>> \in Seq(Byte) /\ Leads(g, <<MULTIMEDIA, ALT>>, h2)
    <3>1. MULTIMEDIA \in Byte /\ ALT \in Byte
      BY DEF Byte, ALT, MULTIMEDIA
    <3> QED BY <3>1, TwoBytes
  <2>6. h2.on = g.on \cup KeyModifier(k)
    BY <1>7, <2>4 DEF KeyModifier
  <2> HIDE DEF h0, h1, h2
  <2> QED BY <2>1, <2>2, <2>4, <2>5, <2>6
<1>8. CASE k = "prtsc"
  <2>1. Code[k] = <<MULTIMEDIA, LEFT_SHIFT, MULTIMEDIA, 124>>
    BY <1>8 DEF Code
  <2> DEFINE h0 == g
             h1 == Step(h0, MULTIMEDIA)
             h2 == Step(h1, LEFT_SHIFT)
             h3 == Step(h2, MULTIMEDIA)
             h4 == Step(h3, 124)
  <2>2. h1 \in States /\ h2 \in States /\ h3 \in States /\ h4 \in States
    BY StepIsState
  <2>3. h1.where = "multimedia" /\ h1.on = g.on
    <3> DEFINE b == h0
    <3>1. b \in States /\ b.where = "code" /\ b.on = g.on
      BY <2>2
    <3> HIDE DEF b
    <3>2. Step(b, MULTIMEDIA).where = "multimedia" /\ Step(b, MULTIMEDIA).on = g.on
      BY <3>1, Along
    <3> QED BY <3>2 DEF b
  <2>4. h2.where = "code" /\ h2.on = g.on
    <3> DEFINE b == h1
    <3>1. b \in States /\ b.where = "multimedia" /\ b.on = g.on
      BY <2>2, <2>3
    <3> HIDE DEF b
    <3>2. Step(b, LEFT_SHIFT).where = "code" /\ Step(b, LEFT_SHIFT).on = g.on
      BY <3>1, Along
    <3> QED BY <3>2 DEF b
  <2>5. h3.where = "multimedia" /\ h3.on = g.on
    <3> DEFINE b == h2
    <3>1. b \in States /\ b.where = "code" /\ b.on = g.on
      BY <2>2, <2>4
    <3> HIDE DEF b
    <3>2. Step(b, MULTIMEDIA).where = "multimedia" /\ Step(b, MULTIMEDIA).on = g.on
      BY <3>1, Along
    <3> QED BY <3>2 DEF b
  <2>6. h4.where = "code" /\ h4.on = g.on
    <3> DEFINE b == h3
    <3>1. b \in States /\ b.where = "multimedia" /\ b.on = g.on
      BY <2>2, <2>5
    <3> HIDE DEF b
    <3>2. Step(b, 124).where = "code" /\ Step(b, 124).on = g.on
      BY <3>1, Along
    <3> QED BY <3>2 DEF b
  <2>7. /\ <<MULTIMEDIA, LEFT_SHIFT, MULTIMEDIA, 124>> \in Seq(Byte)
       /\ Leads(g, <<MULTIMEDIA, LEFT_SHIFT, MULTIMEDIA, 124>>, h4)
    <3>1. MULTIMEDIA \in Byte /\ LEFT_SHIFT \in Byte /\ 124 \in Byte
      BY DEF Byte, LEFT_SHIFT, MULTIMEDIA
    <3> QED BY <3>1, FourBytes
  <2>8. h4.on = g.on \cup KeyModifier(k)
    BY <1>8, <2>6 DEF KeyModifier
  <2> HIDE DEF h0, h1, h2, h3, h4
  <2> QED BY <2>1, <2>2, <2>6, <2>7, <2>8
<1> QED BY <1>1, <1>2, <1>3, <1>4, <1>5, <1>6, <1>7, <1>8

\* A key that is released leaves it so with its modifier off.
LEMMA ReleaseLeads ==
    ASSUME NEW k \in DOMAIN Code, NEW g \in States, g.where = "code"
    PROVE  /\ Release(k) \in Seq(Byte)
           /\ \E h \in States : /\ Leads(g, Release(k), h) /\ h.where = "code"
                                /\ h.on \subseteq g.on \ KeyModifier(k)
<1>1. k \in {"a", "lshift", "rshift", "lctrl", "rctrl", "ralt", "prtsc"}
  BY DEF Code
<1>2. CASE k = "a"
  <2>1. Release(k) = <<KEY_RELEASED, 28>>
    BY <1>2 DEF Code, Release
  <2> DEFINE h0 == g
             h1 == Step(h0, KEY_RELEASED)
             h2 == Step(h1, 28)
  <2>2. h1 \in States /\ h2 \in States
    BY StepIsState
  <2>3. h1.where = "released" /\ h1.on = g.on
    <3> DEFINE b == h0
    <3>1. b \in States /\ b.where = "code" /\ b.on = g.on
      BY <2>2
    <3> HIDE DEF b
    <3>2. Step(b, KEY_RELEASED).where = "released" /\ Step(b, KEY_RELEASED).on = g.on
      BY <3>1, Along
    <3> QED BY <3>2 DEF b
  <2>4. h2.where = "code" /\ h2.on = g.on
    <3> DEFINE b == h1
    <3>1. b \in States /\ b.where = "released" /\ b.on = g.on
      BY <2>2, <2>3
    <3> HIDE DEF b
    <3>2. Step(b, 28).where = "code" /\ Step(b, 28).on = g.on
      BY <3>1, Along
    <3> QED BY <3>2 DEF b
  <2>5. <<KEY_RELEASED, 28>> \in Seq(Byte) /\ Leads(g, <<KEY_RELEASED, 28>>, h2)
    <3>1. KEY_RELEASED \in Byte /\ 28 \in Byte
      BY DEF Byte, KEY_RELEASED
    <3> QED BY <3>1, TwoBytes
  <2>6. h2.on \subseteq g.on \ KeyModifier(k)
    BY <1>2, <2>4 DEF KeyModifier
  <2> HIDE DEF h0, h1, h2
  <2> QED BY <2>1, <2>2, <2>4, <2>5, <2>6
<1>3. CASE k = "lshift"
  <2>1. Release(k) = <<KEY_RELEASED, LEFT_SHIFT>>
    BY <1>3 DEF Code, Release
  <2> DEFINE h0 == g
             h1 == Step(h0, KEY_RELEASED)
             h2 == Step(h1, LEFT_SHIFT)
  <2>2. h1 \in States /\ h2 \in States
    BY StepIsState
  <2>3. h1.where = "released" /\ h1.on = g.on
    <3> DEFINE b == h0
    <3>1. b \in States /\ b.where = "code" /\ b.on = g.on
      BY <2>2
    <3> HIDE DEF b
    <3>2. Step(b, KEY_RELEASED).where = "released" /\ Step(b, KEY_RELEASED).on = g.on
      BY <3>1, Along
    <3> QED BY <3>2 DEF b
  <2>4. h2.where = "code" /\ h2.on = g.on \ {"shift"}
    <3> DEFINE b == h1
    <3>1. b \in States /\ b.where = "released" /\ b.on = g.on
      BY <2>2, <2>3
    <3> HIDE DEF b
    <3>2. Step(b, LEFT_SHIFT).where = "code" /\ Step(b, LEFT_SHIFT).on = g.on \ {"shift"}
      BY <3>1, Along
    <3> QED BY <3>2 DEF b
  <2>5. <<KEY_RELEASED, LEFT_SHIFT>> \in Seq(Byte) /\ Leads(g, <<KEY_RELEASED, LEFT_SHIFT>>, h2)
    <3>1. KEY_RELEASED \in Byte /\ LEFT_SHIFT \in Byte
      BY DEF Byte, KEY_RELEASED, LEFT_SHIFT
    <3> QED BY <3>1, TwoBytes
  <2>6. h2.on \subseteq g.on \ KeyModifier(k)
    BY <1>3, <2>4 DEF KeyModifier
  <2> HIDE DEF h0, h1, h2
  <2> QED BY <2>1, <2>2, <2>4, <2>5, <2>6
<1>4. CASE k = "rshift"
  <2>1. Release(k) = <<KEY_RELEASED, RIGHT_SHIFT>>
    BY <1>4 DEF Code, Release
  <2> DEFINE h0 == g
             h1 == Step(h0, KEY_RELEASED)
             h2 == Step(h1, RIGHT_SHIFT)
  <2>2. h1 \in States /\ h2 \in States
    BY StepIsState
  <2>3. h1.where = "released" /\ h1.on = g.on
    <3> DEFINE b == h0
    <3>1. b \in States /\ b.where = "code" /\ b.on = g.on
      BY <2>2
    <3> HIDE DEF b
    <3>2. Step(b, KEY_RELEASED).where = "released" /\ Step(b, KEY_RELEASED).on = g.on
      BY <3>1, Along
    <3> QED BY <3>2 DEF b
  <2>4. h2.where = "code" /\ h2.on = g.on \ {"shift"}
    <3> DEFINE b == h1
    <3>1. b \in States /\ b.where = "released" /\ b.on = g.on
      BY <2>2, <2>3
    <3> HIDE DEF b
    <3>2. Step(b, RIGHT_SHIFT).where = "code" /\ Step(b, RIGHT_SHIFT).on = g.on \ {"shift"}
      BY <3>1, Along
    <3> QED BY <3>2 DEF b
  <2>5. <<KEY_RELEASED, RIGHT_SHIFT>> \in Seq(Byte) /\ Leads(g, <<KEY_RELEASED, RIGHT_SHIFT>>, h2)
    <3>1. KEY_RELEASED \in Byte /\ RIGHT_SHIFT \in Byte
      BY DEF Byte, KEY_RELEASED, RIGHT_SHIFT
    <3> QED BY <3>1, TwoBytes
  <2>6. h2.on \subseteq g.on \ KeyModifier(k)
    BY <1>4, <2>4 DEF KeyModifier
  <2> HIDE DEF h0, h1, h2
  <2> QED BY <2>1, <2>2, <2>4, <2>5, <2>6
<1>5. CASE k = "lctrl"
  <2>1. Release(k) = <<KEY_RELEASED, CONTROL>>
    BY <1>5 DEF Code, Release
  <2> DEFINE h0 == g
             h1 == Step(h0, KEY_RELEASED)
             h2 == Step(h1, CONTROL)
  <2>2. h1 \in States /\ h2 \in States
    BY StepIsState
  <2>3. h1.where = "released" /\ h1.on = g.on
    <3> DEFINE b == h0
    <3>1. b \in States /\ b.where = "code" /\ b.on = g.on
      BY <2>2
    <3> HIDE DEF b
    <3>2. Step(b, KEY_RELEASED).where = "released" /\ Step(b, KEY_RELEASED).on = g.on
      BY <3>1, Along
    <3> QED BY <3>2 DEF b
  <2>4. h2.where = "code" /\ h2.on = g.on \ {"control"}
    <3> DEFINE b == h1
    <3>1. b \in States /\ b.where = "released" /\ b.on = g.on
      BY <2>2, <2>3
    <3> HIDE DEF b
    <3>2. Step(b, CONTROL).where = "code" /\ Step(b, CONTROL).on = g.on \ {"control"}
      BY <3>1, Along
    <3> QED BY <3>2 DEF b
  <2>5. <<KEY_RELEASED, CONTROL>> \in Seq(Byte) /\ Leads(g, <<KEY_RELEASED, CONTROL>>, h2)
    <3>1. KEY_RELEASED \in Byte /\ CONTROL \in Byte
      BY DEF Byte, CONTROL, KEY_RELEASED
    <3> QED BY <3>1, TwoBytes
  <2>6. h2.on \subseteq g.on \ KeyModifier(k)
    BY <1>5, <2>4 DEF KeyModifier
  <2> HIDE DEF h0, h1, h2
  <2> QED BY <2>1, <2>2, <2>4, <2>5, <2>6
<1>6. CASE k = "rctrl"
  <2>1. Release(k) = <<MULTIMEDIA, KEY_RELEASED, CONTROL>>
    BY <1>6 DEF Code, Release
  <2> DEFINE h0 == g
             h1 == Step(h0, MULTIMEDIA)
             h2 == Step(h1, KEY_RELEASED)
             h3 == Step(h2, CONTROL)
  <2>2. h1 \in States /\ h2 \in States /\ h3 \in States
    BY StepIsState
  <2>3. h1.where = "multimedia" /\ h1.on = g.on
    <3> DEFINE b == h0
    <3>1. b \in States /\ b.where = "code" /\ b.on = g.on
      BY <2>2
    <3> HIDE DEF b
    <3>2. Step(b, MULTIMEDIA).where = "multimedia" /\ Step(b, MULTIMEDIA).on = g.on
      BY <3>1, Along
    <3> QED BY <3>2 DEF b
  <2>4. h2.where = "released" /\ h2.on = g.on
    <3> DEFINE b == h1
    <3>1. b \in States /\ b.where = "multimedia" /\ b.on = g.on
      BY <2>2, <2>3
    <3> HIDE DEF b
    <3>2. Step(b, KEY_RELEASED).where = "released" /\ Step(b, KEY_RELEASED).on = g.on
      BY <3>1, Along
    <3> QED BY <3>2 DEF b
  <2>5. h3.where = "code" /\ h3.on = g.on \ {"control"}
    <3> DEFINE b == h2
    <3>1. b \in States /\ b.where = "released" /\ b.on = g.on
      BY <2>2, <2>4
    <3> HIDE DEF b
    <3>2. Step(b, CONTROL).where = "code" /\ Step(b, CONTROL).on = g.on \ {"control"}
      BY <3>1, Along
    <3> QED BY <3>2 DEF b
  <2>6. /\ <<MULTIMEDIA, KEY_RELEASED, CONTROL>> \in Seq(Byte)
       /\ Leads(g, <<MULTIMEDIA, KEY_RELEASED, CONTROL>>, h3)
    <3>1. MULTIMEDIA \in Byte /\ KEY_RELEASED \in Byte /\ CONTROL \in Byte
      BY DEF Byte, CONTROL, KEY_RELEASED, MULTIMEDIA
    <3> QED BY <3>1, ThreeBytes
  <2>7. h3.on \subseteq g.on \ KeyModifier(k)
    BY <1>6, <2>5 DEF KeyModifier
  <2> HIDE DEF h0, h1, h2, h3
  <2> QED BY <2>1, <2>2, <2>5, <2>6, <2>7
<1>7. CASE k = "ralt"
  <2>1. Release(k) = <<MULTIMEDIA, KEY_RELEASED, ALT>>
    BY <1>7 DEF Code, Release
  <2> DEFINE h0 == g
             h1 == Step(h0, MULTIMEDIA)
             h2 == Step(h1, KEY_RELEASED)
             h3 == Step(h2, ALT)
  <2>2. h1 \in States /\ h2 \in States /\ h3 \in States
    BY StepIsState
  <2>3. h1.where = "multimedia" /\ h1.on = g.on
    <3> DEFINE b == h0
    <3>1. b \in States /\ b.where = "code" /\ b.on = g.on
      BY <2>2
    <3> HIDE DEF b
    <3>2. Step(b, MULTIMEDIA).where = "multimedia" /\ Step(b, MULTIMEDIA).on = g.on
      BY <3>1, Along
    <3> QED BY <3>2 DEF b
  <2>4. h2.where = "released" /\ h2.on = g.on
    <3> DEFINE b == h1
    <3>1. b \in States /\ b.where = "multimedia" /\ b.on = g.on
      BY <2>2, <2>3
    <3> HIDE DEF b
    <3>2. Step(b, KEY_RELEASED).where = "released" /\ Step(b, KEY_RELEASED).on = g.on
      BY <3>1, Along
    <3> QED BY <3>2 DEF b
  <2>5. h3.where = "code" /\ h3.on = g.on \ {"alt"}
    <3> DEFINE b == h2
    <3>1. b \in States /\ b.where = "released" /\ b.on = g.on
      BY <2>2, <2>4
    <3> HIDE DEF b
    <3>2. Step(b, ALT).where = "code" /\ Step(b, ALT).on = g.on \ {"alt"}
      BY <3>1, Along
    <3> QED BY <3>2 DEF b
  <2>6. /\ <<MULTIMEDIA, KEY_RELEASED, ALT>> \in Seq(Byte)
       /\ Leads(g, <<MULTIMEDIA, KEY_RELEASED, ALT>>, h3)
    <3>1. MULTIMEDIA \in Byte /\ KEY_RELEASED \in Byte /\ ALT \in Byte
      BY DEF Byte, ALT, KEY_RELEASED, MULTIMEDIA
    <3> QED BY <3>1, ThreeBytes
  <2>7. h3.on \subseteq g.on \ KeyModifier(k)
    BY <1>7, <2>5 DEF KeyModifier
  <2> HIDE DEF h0, h1, h2, h3
  <2> QED BY <2>1, <2>2, <2>5, <2>6, <2>7
<1>8. CASE k = "prtsc"
  <2>1. Release(k) = <<MULTIMEDIA, KEY_RELEASED, 124, MULTIMEDIA, KEY_RELEASED, LEFT_SHIFT>>
    BY <1>8 DEF Code, Release
  <2> DEFINE h0 == g
             h1 == Step(h0, MULTIMEDIA)
             h2 == Step(h1, KEY_RELEASED)
             h3 == Step(h2, 124)
             h4 == Step(h3, MULTIMEDIA)
             h5 == Step(h4, KEY_RELEASED)
             h6 == Step(h5, LEFT_SHIFT)
  <2>2. h1 \in States /\ h2 \in States /\ h3 \in States /\ h4 \in States /\ h5 \in States /\ h6 \in States
    BY StepIsState
  <2>3. h1.where = "multimedia" /\ h1.on = g.on
    <3> DEFINE b == h0
    <3>1. b \in States /\ b.where = "code" /\ b.on = g.on
      BY <2>2
    <3> HIDE DEF b
    <3>2. Step(b, MULTIMEDIA).where = "multimedia" /\ Step(b, MULTIMEDIA).on = g.on
      BY <3>1, Along
    <3> QED BY <3>2 DEF b
  <2>4. h2.where = "released" /\ h2.on = g.on
    <3> DEFINE b == h1
    <3>1. b \in States /\ b.where = "multimedia" /\ b.on = g.on
      BY <2>2, <2>3
    <3> HIDE DEF b
    <3>2. Step(b, KEY_RELEASED).where = "released" /\ Step(b, KEY_RELEASED).on = g.on
      BY <3>1, Along
    <3> QED BY <3>2 DEF b
  <2>5. h3.where = "code" /\ h3.on = g.on
    <3> DEFINE b == h2
    <3>1. b \in States /\ b.where = "released" /\ b.on = g.on
      BY <2>2, <2>4
    <3> HIDE DEF b
    <3>2. Step(b, 124).where = "code" /\ Step(b, 124).on = g.on
      BY <3>1, Along
    <3> QED BY <3>2 DEF b
  <2>6. h4.where = "multimedia" /\ h4.on = g.on
    <3> DEFINE b == h3
    <3>1. b \in States /\ b.where = "code" /\ b.on = g.on
      BY <2>2, <2>5
    <3> HIDE DEF b
    <3>2. Step(b, MULTIMEDIA).where = "multimedia" /\ Step(b, MULTIMEDIA).on = g.on
      BY <3>1, Along
    <3> QED BY <3>2 DEF b
  <2>7. h5.where = "released" /\ h5.on = g.on
    <3> DEFINE b == h4
    <3>1. b \in States /\ b.where = "multimedia" /\ b.on = g.on
      BY <2>2, <2>6
    <3> HIDE DEF b
    <3>2. Step(b, KEY_RELEASED).where = "released" /\ Step(b, KEY_RELEASED).on = g.on
      BY <3>1, Along
    <3> QED BY <3>2 DEF b
  <2>8. h6.where = "code" /\ h6.on = g.on \ {"shift"}
    <3> DEFINE b == h5
    <3>1. b \in States /\ b.where = "released" /\ b.on = g.on
      BY <2>2, <2>7
    <3> HIDE DEF b
    <3>2. Step(b, LEFT_SHIFT).where = "code" /\ Step(b, LEFT_SHIFT).on = g.on \ {"shift"}
      BY <3>1, Along
    <3> QED BY <3>2 DEF b
  <2>9. /\ <<MULTIMEDIA, KEY_RELEASED, 124, MULTIMEDIA, KEY_RELEASED, LEFT_SHIFT>> \in Seq(Byte)
       /\ Leads(g, <<MULTIMEDIA, KEY_RELEASED, 124, MULTIMEDIA, KEY_RELEASED, LEFT_SHIFT>>, h6)
    <3>1. MULTIMEDIA \in Byte /\ KEY_RELEASED \in Byte /\ 124 \in Byte /\ LEFT_SHIFT \in Byte
      BY DEF Byte, KEY_RELEASED, LEFT_SHIFT, MULTIMEDIA
    <3> QED BY <3>1, SixBytes
  <2>10. h6.on \subseteq g.on \ KeyModifier(k)
    BY <1>8, <2>8 DEF KeyModifier
  <2> HIDE DEF h0, h1, h2, h3, h4, h5, h6
  <2> QED BY <2>1, <2>2, <2>8, <2>9, <2>10
<1> QED BY <1>1, <1>2, <1>3, <1>4, <1>5, <1>6, <1>7, <1>8

----------------------------------------------------------------------------
(* The inductive invariant.                                                *)

TypeInv ==
    /\ env \in Environments /\ held \subseteq env.keys /\ identity \in Identities
    /\ config \in SUBSET Bits /\ local \in SUBSET Bits
    /\ writing \in BOOLEAN /\ scanning \in BOOLEAN /\ irr \in BOOLEAN
    /\ shift \in BOOLEAN /\ alt \in BOOLEAN /\ control \in BOOLEAN
    /\ data \in 0..256 /\ first \in 0..256
    /\ out \in {<<>>, <<data>>} /\ tx \in Seq(Byte)
    /\ pc \in {"init", "hlt", "code", "multimedia", "released", "released multimedia",
               "return", "halted"}
    /\ at \in 1..62 /\ ports \in SUBSET {1, 2}
    /\ pc = "halted" => at # 62
    /\ pc \notin {"init", "halted"} => at = 62

\* The part of the type that relates the driver's places.
PcTyped ==
    /\ pc \in {"init", "hlt", "code", "multimedia", "released", "released multimedia",
               "return", "halted"}
    /\ at \in 1..62
    /\ pc = "halted" => at # 62
    /\ pc \notin {"init", "halted"} => at = 62

\* What is known of the configuration byte, in the controller and on its way there.
ConfigSound ==
    /\ at \in (3..41) \cup (46..50) => Clock1Off \in config
    /\ at \in (10..13) \cup (40..45) => Clock1Off \in local
    /\ at \in 43..45 => Irq1 \in local
    /\ at \in 46..62 => Irq1 \in config
    /\ at \in 1..61 => (writing <=> at \in {13, 45})

\* The controller has answered, and the device is quiet until it is asked.
AnswersSound ==
    /\ at \in {8, 9, 24, 25, 33, 34, 38, 39} => Full /\ data = CONFIG
    /\ at \in {16, 17} => Full /\ data = PASSED
    /\ at \in {20, 21, 29, 30} => Full /\ data \in {PORT_OK, PORT_BAD}
    /\ at \in 47..50 => ~Full

\* The device sends its answers and nothing else.
DeviceSound ==
    /\ at \in 51..61 => ~scanning
    /\ at \in {51, 52} => \/ ~Full /\ tx = <<ACK>> /\ at = 51
                          \/ Full /\ data = ACK /\ tx = <<>>
    /\ at \in {53, 54} => ~Full /\ tx = <<>>
    /\ at \in {55, 56} => \/ ~Full /\ tx = <<ACK>> \o identity /\ at = 55
                          \/ Full /\ data = ACK /\ tx = identity
    /\ at \in {57, 58} => \/ ~Full /\ tx = identity /\ at = 57
                          \/ Full /\ data = Head(identity) /\ tx = Tail(identity)
    /\ at \in 59..61 => /\ Full => data \notin Handled
                        /\ \A i \in 1..Len(tx) : tx[i] \notin Handled

Unmodified == ~shift /\ ~alt /\ ~control

Starting ==
    pc = "init" => ConfigSound /\ AnswersSound /\ DeviceSound /\ (at # 62 => Unmodified)

\* A byte in the output buffer has its interrupt latched, or the handler is about to
\* read it.
Latched == at \in 47..62 /\ pc \notin {"code", "halted"} /\ Full => irr

\* The handler's state, and its state when the byte in the buffer is read.
Prefixes == {"multimedia", "released", "released multimedia"}
StateOf(p, s, c, a) ==
    [where |-> IF p \in Prefixes THEN p ELSE "code",
     on |-> (IF s THEN {"shift"} ELSE {}) \cup (IF c THEN {"control"} ELSE {})
                \cup (IF a THEN {"alt"} ELSE {})]
Now == StateOf(pc, shift, control, alt)
Upcoming == IF Full THEN Step(Now, data) ELSE Now

\* No modifier is on without its key.
Justified(h) ==
    /\ h.where = "code"
    /\ "shift" \in h.on => SomeHeld({"lshift", "rshift"})
    /\ "control" \in h.on => SomeHeld({"lctrl", "rctrl"})
    /\ "alt" \in h.on => SomeHeld({"ralt"})

\* The bytes under way are whole codes, and leave no modifier stuck.
Decodes == \E h \in States : Leads(Upcoming, tx, h) /\ Justified(h)

\* The keyboard was not found and stays off; or it scans.
Dead == Clock1Off \in config /\ ~Full /\ Unmodified /\ pc \in {"init", "hlt", "code"}
Alive == scanning /\ Decodes

Started == at = 62 => Irq1 \in config /\ (Dead \/ Alive)

IInv == TypeInv /\ Starting /\ Latched /\ Started

----------------------------------------------------------------------------

\* Every step but a key's keeps what never changes.
Steady == UNCHANGED <<env, identity, held>>

\* A run of the driver is at one of its operations.
LEMMA AtOperation ==
    ASSUME TypeInv, NEW o, Running(o)
    PROVE  pc = "init" /\ at \in 1..61 /\ Program[at].op = o
BY ProgramOps DEF Running, TypeInv

\* Answers are bytes.
LEMMA AnswersTyped ==
    ASSUME TypeInv
    PROVE  /\ identity \in Seq(Byte) /\ identity # <<>>
           /\ \A i \in 2..Len(identity) : identity[i] \notin Handled
BY IdentityAssumption DEF TypeInv, Byte

\* The invariant holds when the machine starts.
LEMMA Begins == Init => IInv
<1> SUFFICES ASSUME Init PROVE IInv
  OBVIOUS
<1>1. TypeInv
  <2>1. tx \in Seq(Byte) /\ out \in {<<>>, <<data>>}
    BY DEF Init
  <2>2. config \in SUBSET Bits
    BY FirmwareTranslates DEF Init
  <2>3. /\ writing \in BOOLEAN /\ scanning \in BOOLEAN /\ irr \in BOOLEAN
        /\ shift \in BOOLEAN /\ alt \in BOOLEAN /\ control \in BOOLEAN
    BY DEF Init
  <2>4. local \in SUBSET Bits /\ ports \in SUBSET {1, 2} /\ held \subseteq env.keys
    BY DEF Init
  <2> QED BY <2>1, <2>2, <2>3, <2>4 DEF Init, TypeInv
<1>2. Starting
  BY DEF Init, Starting, ConfigSound, AnswersSound, DeviceSound, Unmodified
<1> QED BY <1>1, <1>2 DEF Init, IInv, Latched, Started

\* Waiting.
LEMMA WaitsKeep ==
    ASSUME IInv, WaitWrite \/ WaitRead
    PROVE  IInv'
<1> USE DEF controller, device, driver, modifiers
<1>1. TypeInv /\ Starting /\ pc = "init" /\ at \in 1..61
      /\ \/ at \in {1, 3, 6, 11, 14, 18, 22, 27, 31, 36, 40, 43, 46, 49, 53, 60} /\ ~Full
         \/ at \in {8, 16, 20, 24, 29, 33, 38, 51, 55, 57} /\ Full
  BY AtOperation, Positions DEF WaitWrite, WaitRead, IInv
<1>2. /\ at' = at + 1 /\ Full' = Full
      /\ UNCHANGED <<config, writing, out, data, env, tx, scanning, identity, held, irr, pc,
                     local, first, ports, shift, alt, control>>
  BY DEF WaitWrite, WaitRead, Advance, Full
<1>3. TypeInv'
  BY <1>1, <1>2 DEF TypeInv
<1>4. ConfigSound'
  BY <1>1, <1>2 DEF Starting, ConfigSound
<1>5. AnswersSound'
  BY <1>1, <1>2 DEF Starting, AnswersSound
<1>6. DeviceSound'
  BY <1>1, <1>2 DEF Starting, DeviceSound
<1>7. Latched' /\ Unmodified'
  BY <1>1, <1>2 DEF IInv, Latched, Starting, Unmodified
<1>8. at' # 62
  BY <1>1, <1>2
<1> QED BY <1>3, <1>4, <1>5, <1>6, <1>7, <1>8 DEF IInv, Starting, Started

\* A command to the controller: the answers it gives at once are in the buffer.
LEMMA CommandsKeep ==
    ASSUME IInv, OutCommand
    PROVE  IInv'
<1> USE DEF controller, device, driver, modifiers
<1>1. TypeInv /\ Starting /\ Latched /\ pc = "init" /\ at \in 1..61
  BY AtOperation DEF OutCommand, IInv
<1> DEFINE c == Program[at].arg
<1>2. \/ at = 2 /\ c = "disable_keyboard"
      \/ at = 4 /\ c = "disable_mouse"
      \/ at \in {7, 23, 32, 37} /\ c = "read_config"
      \/ at \in {12, 44} /\ c = "write_config"
      \/ at = 15 /\ c = "self_test"
      \/ at = 19 /\ c = "test_1"
      \/ at = 28 /\ c = "test_2"
      \/ at = 41 /\ c = "enable_keyboard"
      \/ at = 47 /\ c = "pulse"
  <2>1. Program[at].op = "command"
    BY <1>1, AtOperation DEF OutCommand
  <2> QED BY <1>1, <2>1, Positions
<1>3. Command(c)
  BY DEF OutCommand, Arg
<1>4. /\ at' = at + 1
      /\ UNCHANGED <<env, tx, scanning, identity, held, pc, local, first, ports, shift, alt,
                     control>>
  BY <1>3 DEF OutCommand, Advance, Command
<1> HIDE DEF c
<1>5. /\ config' = IF c = "disable_keyboard" THEN config \cup {Clock1Off}
                   ELSE IF c = "disable_mouse" THEN config \cup {Clock2Off}
                   ELSE IF c = "enable_keyboard" THEN config \ {Clock1Off} ELSE config
      /\ writing' = (c = "write_config")
  BY <1>2, <1>3 DEF Command
<1>0. /\ writing' <=> c = "write_config"
      /\ writing' \in BOOLEAN
  BY <1>5
<1>6. \/ /\ at \in {7, 15, 19, 23, 28, 32, 37}
         /\ \E r \in {CONFIG, PASSED, PORT_OK, PORT_BAD} :
               /\ Fill(r)
               /\ at \in {7, 23, 32, 37} => r = CONFIG
               /\ at = 15 => r = PASSED
               /\ at \in {19, 28} => r \in {PORT_OK, PORT_BAD}
      \/ at \in {2, 4, 12, 41, 44, 47} /\ UNCHANGED <<out, data, irr>>
  BY <1>2, <1>3 DEF Command
<1>7. \/ /\ at \in {7, 15, 19, 23, 28, 32, 37} /\ Full' /\ out' = <<data'>>
         /\ data' \in {CONFIG, PASSED, PORT_OK, PORT_BAD}
         /\ at \in {7, 23, 32, 37} => data' = CONFIG
         /\ at = 15 => data' = PASSED
         /\ at \in {19, 28} => data' \in {PORT_OK, PORT_BAD}
         /\ irr' \in BOOLEAN
      \/ at \in {2, 4, 12, 41, 44, 47} /\ UNCHANGED <<out, data, irr>> /\ Full' = Full
  <2>1. ASSUME NEW r, Fill(r) PROVE Full' /\ out' = <<data'>> /\ data' = r /\ irr' \in BOOLEAN
    <3>1. out' = <<r>> /\ data' = r
      BY <2>1 DEF Fill
    <3>2. <<r>> # <<>>
      OBVIOUS
    <3>3. irr' \in BOOLEAN
      BY <2>1 DEF Fill
    <3> QED BY <3>1, <3>2, <3>3 DEF Full
  <2>2. CASE at \in {2, 4, 12, 41, 44, 47} /\ UNCHANGED <<out, data, irr>>
    BY <2>2 DEF Full
  <2>3. CASE at \in {7, 15, 19, 23, 28, 32, 37}
    <3>1. PICK r \in {CONFIG, PASSED, PORT_OK, PORT_BAD} :
               /\ Fill(r)
               /\ at \in {7, 23, 32, 37} => r = CONFIG
               /\ at = 15 => r = PASSED
               /\ at \in {19, 28} => r \in {PORT_OK, PORT_BAD}
      BY <1>6, <2>3
    <3> QED BY <2>1, <2>3, <3>1
  <2> QED BY <1>6, <2>2, <2>3
<1>8. TypeInv'
  <2>1. data' \in 0..256 /\ out' \in {<<>>, <<data'>>} /\ irr' \in BOOLEAN
    <3>1. data \in 0..256 /\ out \in {<<>>, <<data>>} /\ irr \in BOOLEAN
      BY <1>1 DEF TypeInv
    <3>2. {CONFIG, PASSED, PORT_OK, PORT_BAD} \subseteq 0..256
      BY DEF CONFIG, PASSED, PORT_OK, PORT_BAD
    <3>3. CASE UNCHANGED <<out, data, irr>>
      BY <3>1, <3>3
    <3>4. CASE out' = <<data'>> /\ data' \in {CONFIG, PASSED, PORT_OK, PORT_BAD} /\ irr' \in BOOLEAN
      BY <3>2, <3>4
    <3> QED BY <1>7, <3>3, <3>4
  <2>2. config' \in SUBSET Bits /\ writing' \in BOOLEAN
    BY <1>1, <1>5, <1>0 DEF TypeInv, Bits
  <2>3. env' \in Environments /\ held' \subseteq env'.keys /\ identity' \in Identities
    BY <1>1, <1>4 DEF TypeInv
  <2>4. /\ local' \in SUBSET Bits /\ scanning' \in BOOLEAN
        /\ shift' \in BOOLEAN /\ alt' \in BOOLEAN /\ control' \in BOOLEAN
        /\ first' \in 0..256 /\ ports' \in SUBSET {1, 2} /\ tx' \in Seq(Byte)
    BY <1>1, <1>4 DEF TypeInv
  <2>5. PcTyped'
    BY <1>1, <1>4 DEF TypeInv, PcTyped
  <2> QED BY <2>1, <2>2, <2>3, <2>4, <2>5 DEF TypeInv, PcTyped
<1>9. ConfigSound'
  <2>1. Clock1Off # Clock2Off /\ Irq1 # Clock1Off
    BY DEF Clock1Off, Clock2Off, Irq1
  <2>2. ConfigSound
    BY <1>1 DEF Starting
  <2>3. at' \in (3..41) \cup (46..50) => Clock1Off \in config'
    BY <1>2, <1>4, <1>5, <2>1, <2>2 DEF ConfigSound
  <2>4. at' \in 46..62 => Irq1 \in config'
    BY <1>2, <1>4, <1>5, <2>1, <2>2 DEF ConfigSound
  <2>5. /\ at' \in (10..13) \cup (40..45) => Clock1Off \in local'
        /\ at' \in 43..45 => Irq1 \in local'
    BY <1>2, <1>4, <2>2 DEF ConfigSound
  <2>6. at' \in 1..61 => (writing' <=> at' \in {13, 45})
    BY <1>1, <1>2, <1>4, <1>0
  <2> QED BY <2>3, <2>4, <2>5, <2>6 DEF ConfigSound
<1>10. AnswersSound'
  BY <1>1, <1>2, <1>4, <1>7 DEF Starting, AnswersSound
<1>11. DeviceSound' /\ at' # 62
  <2>1. at' \in 3..48
    BY <1>2, <1>4
  <2> QED BY <2>1 DEF DeviceSound
<1>12. Latched' /\ Unmodified'
  BY <1>1, <1>2, <1>4, <1>7 DEF Latched, Starting, AnswersSound, Unmodified
<1> QED BY <1>8, <1>9, <1>10, <1>11, <1>12 DEF IInv, Starting, Started

\* The flush empties the output buffer.
LEMMA FlushKeeps ==
    ASSUME IInv, Flush
    PROVE  IInv'
<1> USE DEF controller, device, driver, modifiers
<1>1. TypeInv /\ Starting /\ pc = "init" /\ at = 5
  <2>1. pc = "init" /\ at \in 1..61 /\ Program[at].op = "flush"
    BY AtOperation DEF Flush, IInv
  <2>2. at \in {5}
    BY <2>1, Positions
  <2> QED BY <2>1, <2>2 DEF IInv
<1>2. /\ at' \in {5, 6} /\ out' = <<>>
      /\ UNCHANGED <<config, writing, data, env, tx, scanning, identity, held, irr, pc,
                     local, first, ports, shift, alt, control>>
  BY <1>1 DEF Flush, Advance
<1>3. TypeInv'
  BY <1>1, <1>2 DEF TypeInv
<1>4. ConfigSound' /\ AnswersSound' /\ DeviceSound' /\ Unmodified' /\ Latched' /\ at' # 62
  BY <1>1, <1>2 DEF Starting, ConfigSound, AnswersSound, DeviceSound, Unmodified, Latched
<1> QED BY <1>3, <1>4 DEF IInv, Starting, Started

\* The configuration byte is changed.
LEMMA ChangeKeeps ==
    ASSUME IInv, Change
    PROVE  IInv'
<1> USE DEF controller, device, driver, modifiers
<1>1. TypeInv /\ Starting /\ pc = "init"
      /\ \/ at = 10 /\ Arg = "toggle"
         \/ at = 42 /\ Arg = "enable"
  <2>1. TypeInv /\ Starting /\ pc = "init" /\ at \in 1..61 /\ Program[at].op = "change"
    BY AtOperation DEF Change, IInv
  <2>2. \/ at = 10 /\ Program[at].arg = "toggle"
        \/ at = 42 /\ Program[at].arg = "enable"
    BY <2>1, Positions
  <2> QED BY <2>1, <2>2 DEF Arg
<1>2. /\ at' = at + 1 /\ Full' = Full
      /\ UNCHANGED <<config, writing, out, data, env, tx, scanning, identity, held, irr, pc,
                     first, ports, shift, alt, control>>
      /\ local' = IF at = 10 THEN Toggled ELSE local \cup {Irq1}
  BY <1>1 DEF Change, Advance, Full
<1>3. local' \in SUBSET Bits /\ Clock1Off \in local' /\ (at = 42 => Irq1 \in local')
  <2>1. local \in SUBSET Bits /\ Clock1Off \in local
    BY <1>1 DEF TypeInv, Starting, ConfigSound
  <2> QED BY <1>1, <1>2, <2>1 DEF Toggled, Bits, Irq1, Irq2, Clock1Off, Clock2Off, Translate
<1>4. TypeInv'
  BY <1>1, <1>2, <1>3 DEF TypeInv
<1>5. ConfigSound'
  BY <1>1, <1>2, <1>3 DEF Starting, ConfigSound
<1>6. AnswersSound' /\ DeviceSound' /\ Unmodified' /\ Latched' /\ at' # 62
  <2>1. at' \in {11, 43}
    BY <1>1, <1>2
  <2>2. Unmodified'
    BY <1>1, <1>2 DEF Starting, Unmodified
  <2> QED BY <2>1, <2>2 DEF AnswersSound, DeviceSound, Latched
<1> QED BY <1>1, <1>2, <1>4, <1>5, <1>6 DEF IInv, Starting, Started

\* A port is noted, and the keyboard asked for only if there is one.
LEMMA PortsKeep ==
    ASSUME IInv, Port \/ IfPort1
    PROVE  IInv'
<1> USE DEF controller, device, driver, modifiers
<1>1. TypeInv /\ Starting /\ pc = "init"
      /\ \/ at \in {26, 35} /\ at' = at + 1
         \/ at = 48 /\ at' \in {49, 62}
  <2>1. TypeInv /\ Starting
    BY DEF IInv
  <2>2. CASE Port
    <3>1. pc = "init" /\ at \in 1..61 /\ Program[at].op = "port" /\ at' = at + 1
      BY <2>1, <2>2, AtOperation DEF Port, Advance
    <3>2. at \in {26, 35}
      BY <3>1, Positions
    <3> QED BY <2>1, <3>1, <3>2
  <2>3. CASE IfPort1
    <3>1. pc = "init" /\ at \in 1..61 /\ Program[at].op = "if_port_1"
      BY <2>1, <2>3, AtOperation DEF IfPort1
    <3>2. at \in {48}
      BY <3>1, Positions
    <3>3. Len(Program) = 61
      BY ProgramOps
    <3>4. at' \in {at + 1, 62}
      BY <2>3, <3>3 DEF IfPort1
    <3> QED BY <2>1, <3>1, <3>2, <3>4
  <2> QED BY <2>2, <2>3
<1>2. /\ Full' = Full /\ ports' \in SUBSET {1, 2}
      /\ UNCHANGED <<config, writing, out, data, env, tx, scanning, identity, held, irr, pc,
                     local, first, shift, alt, control>>
  <2>1. Port => Arg \in {1, 2}
    BY <1>1, AtOperation, Positions DEF Port, Arg
  <2>2. ports \in SUBSET {1, 2}
    BY <1>1 DEF TypeInv
  <2> QED BY <2>1, <2>2 DEF Port, IfPort1, Full
<1>3. TypeInv'
  <2>1. at' \in 1..62
    BY <1>1
  <2> QED BY <1>1, <1>2, <2>1 DEF TypeInv
<1>4. ConfigSound' /\ AnswersSound' /\ DeviceSound' /\ Unmodified' /\ Latched'
  <2>1. CASE at \in {26, 35} /\ at' = at + 1
    BY <1>1, <1>2, <2>1 DEF Starting, ConfigSound, AnswersSound, DeviceSound, Unmodified, Latched
  <2>2. CASE at = 48 /\ at' = 49
    BY <1>1, <1>2, <2>2 DEF Starting, ConfigSound, AnswersSound, DeviceSound, Unmodified, Latched
  <2>3. CASE at = 48 /\ at' = 62
    BY <1>1, <1>2, <2>3 DEF Starting, ConfigSound, AnswersSound, DeviceSound, Unmodified, Latched
  <2> QED BY <1>1, <2>1, <2>2, <2>3
<1>5. at' = 62 => Dead' /\ Irq1 \in config'
  BY <1>1, <1>2 DEF Dead, Starting, ConfigSound, AnswersSound, Unmodified
<1> QED BY <1>3, <1>4, <1>5 DEF IInv, Starting, Started

----------------------------------------------------------------------------
(* The device's answers, and data sent.                                    *)

\* One acknowledgement.
LEMMA JustAck ==
    <<ACK>> \in Seq(Byte) /\ Len(<<ACK>>) = 1 /\ <<ACK>>[1] = ACK
<1>1. ACK \in Byte
  BY DEF ACK, Byte
<1> QED BY <1>1

\* An acknowledgement, and what comes after it.
LEMMA AckThen ==
    ASSUME NEW s \in Seq(Byte)
    PROVE  /\ <<ACK>> \o s \in Seq(Byte) /\ <<ACK>> \o s # <<>>
           /\ Head(<<ACK>> \o s) = ACK /\ Tail(<<ACK>> \o s) = s
<1>1. PICK a : a = <<ACK>> /\ a \in Seq(Byte) /\ Len(a) = 1 /\ a[1] = ACK
  BY JustAck
<1>2. PICK u : u = a \o s
  OBVIOUS
<1>3. /\ u \in Seq(Byte) /\ Len(u) = 1 + Len(s) /\ Len(s) \in Nat
      /\ \A i \in 1..(1 + Len(s)) : u[i] = IF i <= 1 THEN a[i] ELSE s[i - 1]
  BY <1>1, <1>2, ConcatProperties, LenProperties
<1>4. u # <<>> /\ u[1] = ACK
  BY <1>1, <1>3, EmptySeq
<1>5. Head(u) = ACK
  BY <1>3, <1>4
<1>6. /\ Tail(u) \in Seq(Byte) /\ Len(Tail(u)) = Len(s)
      /\ \A i \in 1..Len(Tail(u)) : Tail(u)[i] = u[i + 1]
  BY <1>3, <1>4, HeadTailProperties
<1>7. \A i \in 1..Len(s) : Tail(u)[i] = s[i]
  <2> SUFFICES ASSUME NEW i \in 1..Len(s) PROVE Tail(u)[i] = s[i]
    OBVIOUS
  <2>1. i + 1 \in 1..(1 + Len(s)) /\ ~(i + 1 <= 1) /\ (i + 1) - 1 = i
    BY <1>3
  <2>2. u[i + 1] = s[i]
    BY <1>3, <2>1
  <2> QED BY <1>6, <2>2
<1>8. Tail(u) = s
  BY <1>6, <1>7, SeqEqual
<1> QED BY <1>1, <1>2, <1>3, <1>4, <1>5, <1>8

\* The handler's state is one.
LEMMA StatesAre ==
    ASSUME NEW p, NEW s \in BOOLEAN, NEW c \in BOOLEAN, NEW a \in BOOLEAN
    PROVE  /\ StateOf(p, s, c, a) \in States
           /\ StateOf(p, s, c, a).where = IF p \in Prefixes THEN p ELSE "code"
           /\ "shift" \in StateOf(p, s, c, a).on <=> s
           /\ "control" \in StateOf(p, s, c, a).on <=> c
           /\ "alt" \in StateOf(p, s, c, a).on <=> a
<1> DEFINE on == (IF s THEN {"shift"} ELSE {}) \cup (IF c THEN {"control"} ELSE {})
                     \cup (IF a THEN {"alt"} ELSE {})
           w == IF p \in Prefixes THEN p ELSE "code"
<1>1. on \in SUBSET Modifiers
  BY DEF Modifiers
<1>2. w \in {"code", "multimedia", "released", "released multimedia"}
  BY DEF Prefixes
<1>3. ("shift" \in on <=> s) /\ ("control" \in on <=> c) /\ ("alt" \in on <=> a)
  OBVIOUS
<1>4. StateOf(p, s, c, a) = [where |-> w, on |-> on]
  BY DEF StateOf
<1> HIDE DEF on, w
<1>5. StateOf(p, s, c, a) \in States /\ StateOf(p, s, c, a).where = w /\ StateOf(p, s, c, a).on = on
  <2>1. PICK f : f = [where |-> w, on |-> on]
    OBVIOUS
  <2>2. f.where = w /\ f.on = on
    BY <2>1
  <2>3. f \in States
    BY <1>1, <1>2, <2>1 DEF States
  <2> QED BY <1>4, <2>1, <2>2, <2>3
<1>6. w = IF p \in Prefixes THEN p ELSE "code"
  BY DEF w
<1> DEFINE g == StateOf(p, s, c, a)
<1>7. g \in States /\ g.where = w /\ g.on = on
  BY <1>5
<1> HIDE DEF g
<1>8. ("shift" \in g.on <=> s) /\ ("control" \in g.on <=> c) /\ ("alt" \in g.on <=> a)
  BY <1>3, <1>7
<1> QED BY <1>6, <1>7, <1>8 DEF g

\* Data for the controller and for the device.
LEMMA DataKeeps ==
    ASSUME IInv, OutData
    PROVE  IInv'
<1> USE DEF controller, device, driver, modifiers
<1>1. TypeInv /\ Starting /\ Latched /\ pc = "init" /\ at \in 1..61
  BY AtOperation DEF OutData, IInv
<1> DEFINE c == Program[at].arg
<1>2. \/ at \in {13, 45} /\ c = "config"
      \/ at = 50 /\ c = "disable_scanning"
      \/ at = 54 /\ c = "identify"
      \/ at = 61 /\ c = "enable_scanning"
  <2>1. Program[at].op = "data"
    BY <1>1, AtOperation DEF OutData
  <2> QED BY <1>1, <2>1, Positions
<1>3. Data(c)
  BY DEF OutData, Arg
<1>4. /\ at' = at + 1 /\ Full' = Full /\ writing' = FALSE
      /\ UNCHANGED <<env, out, data, irr, identity, held, pc, local, first, ports, shift, alt,
                     control>>
  BY <1>3 DEF OutData, Advance, Data, Full
<1> HIDE DEF c
<1>5. writing <=> at \in {13, 45}
  BY <1>1 DEF Starting, ConfigSound
<1>6. \/ at \in {13, 45} /\ config' = local /\ UNCHANGED <<tx, scanning>>
      \/ at = 50 /\ config' = config \ {Clock1Off} /\ tx' = <<ACK>> /\ scanning' = FALSE
      \/ /\ at = 54 /\ config' = config \ {Clock1Off}
         /\ tx' = tx \o <<ACK>> \o identity /\ UNCHANGED scanning
      \/ /\ at = 61 /\ config' = config \ {Clock1Off}
         /\ tx' = tx \o <<ACK>> /\ scanning' = TRUE
  BY <1>2, <1>3, <1>5 DEF Data
<1>7. /\ at = 54 => tx' = <<ACK>> \o identity
      /\ tx' \in Seq(Byte)
  <2>1. <<ACK>> \in Seq(Byte) /\ tx \in Seq(Byte) /\ identity \in Seq(Byte)
    BY <1>1, AnswersTyped DEF ACK, Byte, TypeInv
  <2>2. at = 54 => tx = <<>>
    BY <1>1 DEF Starting, DeviceSound
  <2>3. <<>> \o <<ACK>> = <<ACK>>
    BY <2>1, ConcatEmptySeq
  <2>4. at = 54 => tx' = <<ACK>> \o identity
    BY <1>6, <2>2, <2>3
  <2>5. tx \o <<ACK>> \in Seq(Byte) /\ <<ACK>> \o identity \in Seq(Byte)
    BY <2>1, ConcatProperties
  <2>6. tx' \in {tx, <<ACK>>, tx \o <<ACK>>} \/ at = 54
    BY <1>6
  <2> QED BY <2>1, <2>4, <2>5, <2>6
<1>8. scanning' \in BOOLEAN
  BY <1>1, <1>6 DEF TypeInv
<1>9. TypeInv'
  <2>1. config' \in SUBSET Bits
    BY <1>1, <1>6 DEF TypeInv
  <2>2. writing' \in BOOLEAN
    BY <1>4
  <2>3. at' \in 1..62
    BY <1>1, <1>4
  <2> QED BY <1>1, <1>4, <1>7, <1>8, <2>1, <2>2, <2>3 DEF TypeInv
<1>10. ConfigSound'
  <2>1. Irq1 # Clock1Off
    BY DEF Clock1Off, Irq1
  <2>2. ConfigSound
    BY <1>1 DEF Starting
  <2>3. ~writing' /\ at' \notin {13, 45}
    BY <1>4, <1>6
  <2>4. /\ at' \in (10..13) \cup (40..45) => Clock1Off \in local'
        /\ at' \in 43..45 => Irq1 \in local'
    BY <1>4, <1>6
  <2>5. at' \in (3..41) \cup (46..50) => Clock1Off \in config'
    <3>1. CASE at \in {13, 45} /\ config' = local
      <4>1. Clock1Off \in local
        BY <2>2, <3>1 DEF ConfigSound
      <4> QED BY <3>1, <4>1
    <3>2. CASE at \in {50, 54, 61}
      <4>1. at' \in {51, 55, 62}
        BY <1>4, <3>2
      <4> QED BY <4>1
    <3> QED BY <1>6, <3>1, <3>2
  <2>6. at' \in 46..62 => Irq1 \in config'
    <3>1. CASE at = 13
      BY <1>4, <3>1
    <3>2. CASE at = 45 /\ config' = local
      BY <2>2, <3>2 DEF ConfigSound
    <3>3. CASE at \in {50, 54, 61} /\ config' = config \ {Clock1Off}
      BY <2>1, <2>2, <3>3 DEF ConfigSound
    <3> QED BY <1>6, <3>1, <3>2, <3>3
  <2> QED BY <2>3, <2>4, <2>5, <2>6 DEF ConfigSound
<1>11. AnswersSound' /\ Unmodified'
  BY <1>1, <1>4, <1>6 DEF Starting, AnswersSound, Unmodified
<1>12. Latched'
  BY <1>1, <1>4, <1>6 DEF Starting, AnswersSound, Latched
<1>13. at # 61 => DeviceSound'
  <2>1. CASE at \in {13, 45}
    <3>1. at' \in {14, 46}
      BY <1>4, <2>1
    <3> QED BY <3>1 DEF DeviceSound
  <2>2. CASE at = 50
    <3>1. ~Full' /\ at' = 51 /\ tx' = <<ACK>> /\ ~scanning'
      BY <1>1, <1>4, <1>6, <2>2 DEF Starting, AnswersSound
    <3> QED BY <3>1 DEF DeviceSound
  <2>3. CASE at = 54
    <3>1. ~Full' /\ at' = 55 /\ tx' = <<ACK>> \o identity /\ ~scanning' /\ identity' = identity
      BY <1>1, <1>4, <1>6, <1>7, <2>3 DEF Starting, DeviceSound
    <3> QED BY <3>1 DEF DeviceSound
  <2> QED BY <1>6, <2>1, <2>2, <2>3
<1>14. ASSUME at = 61 PROVE Alive' /\ DeviceSound' /\ at' = 62
  <2>1. scanning' /\ at' = 62 /\ DeviceSound'
    BY <1>4, <1>6, <1>14 DEF DeviceSound
  <2>2. /\ Full => data \notin Handled
        /\ \A i \in 1..Len(tx) : tx[i] \notin Handled
    BY <1>1, <1>14 DEF Starting, DeviceSound
  <2>3. \A i \in 1..Len(tx') : tx'[i] \notin Handled
    <3>1. PICK a : a = <<ACK>> /\ a \in Seq(Byte) /\ Len(a) = 1 /\ a[1] = ACK
      BY JustAck
    <3>2. ACK \notin Handled
      BY DEF ACK, Handled, ALT, CONTROL, LEFT_SHIFT, RIGHT_SHIFT, MULTIMEDIA, KEY_RELEASED
    <3>3. tx' = tx \o a /\ tx \in Seq(Byte) /\ Len(tx) \in Nat
      BY <1>1, <1>6, <1>14, <3>1, LenProperties DEF TypeInv
    <3>4. /\ Len(tx') = Len(tx) + 1
          /\ \A i \in 1..(Len(tx) + 1) : tx'[i] = IF i <= Len(tx) THEN tx[i] ELSE a[i - Len(tx)]
      BY <3>1, <3>3, ConcatProperties
    <3> SUFFICES ASSUME NEW i \in 1..Len(tx') PROVE tx'[i] \notin Handled
      OBVIOUS
    <3>5. CASE i <= Len(tx)
      BY <2>2, <3>3, <3>4, <3>5
    <3>6. CASE ~(i <= Len(tx))
      <4>1. i - Len(tx) = 1
        BY <3>3, <3>4, <3>6
      <4> QED BY <3>1, <3>2, <3>4, <3>6, <4>1
    <3> QED BY <3>5, <3>6
  <2>4. Now' \in States /\ Now'.where = "code" /\ Now'.on = {}
    <3>1. ~shift' /\ ~control' /\ ~alt' /\ pc' = "init"
      BY <1>1, <1>4, <1>11 DEF Unmodified
    <3>2. shift' \in BOOLEAN /\ control' \in BOOLEAN /\ alt' \in BOOLEAN
      BY <1>9 DEF TypeInv
    <3>3. Now' = StateOf(pc', shift', control', alt')
      BY DEF Now
    <3>4. Now' \in States /\ Now'.where = "code"
          /\ "shift" \notin Now'.on /\ "control" \notin Now'.on /\ "alt" \notin Now'.on
      <4>1. pc' \notin Prefixes
        BY <3>1 DEF Prefixes
      <4>2. PICK p : p = pc'
        OBVIOUS
      <4>3. StateOf(p, shift', control', alt') \in States
            /\ StateOf(p, shift', control', alt').where = "code"
        BY <3>2, <4>1, <4>2, StatesAre
      <4>4. /\ "shift" \notin StateOf(p, shift', control', alt').on
            /\ "control" \notin StateOf(p, shift', control', alt').on
            /\ "alt" \notin StateOf(p, shift', control', alt').on
        BY <3>1, <3>2, StatesAre
      <4> QED BY <3>3, <4>2, <4>3, <4>4
    <3>5. Now'.on \in SUBSET Modifiers
      BY <3>4 DEF States
    <3> QED BY <3>4, <3>5 DEF Modifiers
  <2>5. Upcoming' = Now'
    <3>1. CASE ~Full'
      BY <3>1 DEF Upcoming
    <3>2. CASE Full'
      <4>1. data' \notin Handled
        BY <1>4, <2>2, <3>2
      <4>2. PlainNames(data') = {} /\ data' # MULTIMEDIA /\ data' # KEY_RELEASED
        BY <4>1 DEF PlainNames, Names, Handled, ShiftReleases
      <4>3. Step(Now', data') = [where |-> "code", on |-> Now'.on]
        <5>1. Step(Now', data') = AfterCode(Now', data')
          BY <2>4, StepIs
        <5>2. Now'.on \cup {} = Now'.on
          OBVIOUS
        <5> QED BY <4>2, <5>1, <5>2 DEF AfterCode
      <4>4. Step(Now', data') = Now'
        BY <2>4, <4>3 DEF States
      <4> QED BY <3>2, <4>4 DEF Upcoming
    <3> QED BY <3>1, <3>2
  <2>6. Leads(Now', tx', Now')
    BY <1>7, <2>3, <2>4, NothingHandled
  <2>7. Justified(Now)'
    BY <2>4 DEF Justified
  <2>8. Decodes'
    <3>1. Leads(Upcoming', tx', Now')
      BY <2>5, <2>6
    <3> QED BY <2>4, <2>7, <3>1 DEF Decodes
  <2> QED BY <2>1, <2>8 DEF Alive
<1>15. Starting'
  BY <1>10, <1>11, <1>13, <1>14 DEF Starting
<1>16. Started'
  <2>1. at' = 62 => at = 61
    BY <1>1, <1>4
  <2>2. at' = 62 => Irq1 \in config'
    BY <1>10 DEF ConfigSound
  <2> QED BY <1>14, <2>1, <2>2 DEF Started
<1> QED BY <1>9, <1>12, <1>15, <1>16 DEF IInv

----------------------------------------------------------------------------
(* Reading: ps2_keyboard_init, then the handler.                           *)

\* What comes after the first byte of an answer is none the handler looks for.
LEMMA TailUnhandled ==
    ASSUME NEW s \in Seq(Byte), s # <<>>, \A i \in 2..Len(s) : s[i] \notin Handled
    PROVE  \A i \in 1..Len(Tail(s)) : Tail(s)[i] \notin Handled
<1>1. /\ Len(s) \in Nat \ {0} /\ Len(Tail(s)) = Len(s) - 1
      /\ \A i \in 1..Len(Tail(s)) : Tail(s)[i] = s[i + 1]
  BY HeadTailProperties, EmptySeq
<1> SUFFICES ASSUME NEW i \in 1..Len(Tail(s)) PROVE Tail(s)[i] \notin Handled
  OBVIOUS
<1>2. i + 1 \in 2..Len(s)
  BY <1>1
<1> QED BY <1>1, <1>2

\* A byte is read, and what the driver waited for is what it reads.
LEMMA ReadKeeps ==
    ASSUME IInv, Read
    PROVE  IInv'
<1> USE DEF controller, device, driver, modifiers
<1>1. TypeInv /\ Starting /\ pc = "init" /\ at \in 1..61
  BY AtOperation DEF Read, IInv
<1> DEFINE c == Program[at].arg
<1>2. \/ at \in {9, 25, 34, 39} /\ c = "config"
      \/ at = 17 /\ c = "self_test"
      \/ at \in {21, 30} /\ c = "test"
      \/ at \in {52, 56} /\ c = "ack"
      \/ at = 58 /\ c = "first"
      \/ at = 59 /\ c = "second"
  <2>1. Program[at].op = "read"
    BY <1>1, AtOperation DEF Read
  <2> QED BY <1>1, <2>1, ReadsStand
<1>3. /\ ConfigSound /\ AnswersSound /\ DeviceSound /\ Unmodified
  BY <1>1 DEF Starting
<1>4. /\ at \in {9, 25, 34, 39} => data = CONFIG
      /\ at = 17 => data = PASSED
      /\ at = 52 => data = ACK /\ tx = <<>>
      /\ at = 56 => data = ACK /\ tx = identity
      /\ at = 58 => tx = Tail(identity)
      /\ at \in {52, 56, 58, 59} => ~scanning
      /\ at = 59 => \A i \in 1..Len(tx) : tx[i] \notin Handled
  <2>1. /\ at \in {9, 25, 34, 39} => data = CONFIG
        /\ at = 17 => data = PASSED
    BY <1>3 DEF AnswersSound
  <2>2. /\ at = 52 => data = ACK /\ tx = <<>>
        /\ at = 56 => data = ACK /\ tx = identity
    BY <1>3 DEF DeviceSound
  <2>3. at = 58 => tx = Tail(identity)
    BY <1>3 DEF DeviceSound
  <2>4. /\ at \in {52, 56, 58, 59} => ~scanning
        /\ at = 59 => \A i \in 1..Len(tx) : tx[i] \notin Handled
    BY <1>3 DEF DeviceSound
  <2> QED BY <2>1, <2>2, <2>3, <2>4
<1>5. Skipped = 6
  BY ReadConfigOps DEF Skipped, Four
<1>6. /\ ~Full'
      /\ UNCHANGED <<config, writing, data, env, tx, scanning, identity, held, irr, ports,
                     shift, alt, control>>
  BY DEF Read, Full
<1>7. local' \in SUBSET Bits /\ (c = "config" => local' = config) /\ (c # "config" => local' = local)
  <2>1. local \in SUBSET Bits /\ config \in SUBSET Bits
    BY <1>1 DEF TypeInv
  <2>2. local' \in IF c # "config" THEN {local} ELSE IF data = CONFIG THEN {config} ELSE SUBSET Bits
    BY DEF Read, Arg
  <2>3. c = "config" => data = CONFIG
    BY <1>2, <1>4
  <2> QED BY <2>1, <2>2, <2>3
<1>8. first' \in 0..256
  BY <1>1 DEF Read, TypeInv
<1>9. \/ pc' = pc /\ at' = at + 1
      \/ pc' = pc /\ at \in {21, 30} /\ at' = at + 6
      \/ pc' = "halted" /\ at' = at
  <2>1. CASE c = "self_test" /\ data # PASSED
    BY <2>1, <1>2, <1>4
  <2>2. CASE c = "ack" /\ data # ACK
    BY <2>2, <1>2, <1>4
  <2>3. CASE c = "second"
    <3>1. CASE first \notin Mouse \cup {Keyboard}
      <4>1. Panic /\ Advance(0)
        BY <2>3, <3>1 DEF Read, Arg
      <4> QED BY <1>1, <4>1 DEF Panic, Advance
    <3>2. CASE first \in Mouse \cup {Keyboard}
      BY <2>3, <3>2, <1>1 DEF Read, Arg, Panic, Advance
    <3> QED BY <3>1, <3>2
  <2>4. CASE c = "test"
    BY <2>4, <1>1, <1>2, <1>5 DEF Read, Arg, Panic, Advance
  <2>5. CASE c \in {"config", "first"}
    BY <2>5, <1>1 DEF Read, Arg, Panic, Advance
  <2>6. CASE c = "self_test" /\ data = PASSED
    BY <2>6, <1>1 DEF Read, Arg, Panic, Advance
  <2>7. CASE c = "ack" /\ data = ACK
    BY <2>7, <1>1 DEF Read, Arg, Panic, Advance
  <2> QED BY <1>2, <2>1, <2>2, <2>3, <2>4, <2>5, <2>6, <2>7
<1> HIDE DEF c
<1>10. TypeInv'
  <2>1. out' = <<>>
    BY DEF Read
  <2>2. at' \in 1..61 /\ pc' \in {"init", "halted"}
    BY <1>1, <1>2, <1>9
  <2>3. out' \in {<<>>, <<data'>>} /\ PcTyped'
    <3>1. out' \in {<<>>, <<data'>>}
      BY <2>1
    <3>2. at' \in 1..62 /\ at' # 62
      BY <2>2
    <3>3. PcTyped'
      BY <2>2, <3>2 DEF PcTyped
    <3> QED BY <3>1, <3>3
  <2>4. env' \in Environments /\ held' \subseteq env'.keys /\ identity' \in Identities
    BY <1>1, <1>6 DEF TypeInv
  <2>5. /\ config' \in SUBSET Bits /\ ports' \in SUBSET {1, 2} /\ data' \in 0..256
        /\ writing' \in BOOLEAN /\ scanning' \in BOOLEAN /\ irr' \in BOOLEAN
        /\ shift' \in BOOLEAN /\ alt' \in BOOLEAN /\ control' \in BOOLEAN
        /\ tx' \in Seq(Byte)
    BY <1>1, <1>6 DEF TypeInv
  <2> QED BY <1>7, <1>8, <2>3, <2>4, <2>5 DEF TypeInv, PcTyped
<1>11. Latched' /\ Started'
  <2>1. at' # 62
    BY <1>1, <1>2, <1>9
  <2> QED BY <1>6, <2>1 DEF Latched, Started
<1>12. ASSUME pc' = "init" PROVE ConfigSound' /\ AnswersSound' /\ DeviceSound' /\ Unmodified'
  <2>1. \/ at' = at + 1
        \/ at \in {21, 30} /\ at' = at + 6
    BY <1>9, <1>12
  <2>2. Unmodified'
    BY <1>3, <1>6 DEF Unmodified
  <2>3. at' \in {10, 26, 35, 40, 18, 22, 31, 27, 36, 53, 57, 59, 60}
    BY <1>2, <2>1
  <2>4. ConfigSound'
    <3>1. /\ at' \in (3..41) \cup (46..50) => at \in (3..41) \cup (46..50)
          /\ at' \in 46..62 => at \in 46..62
          /\ at' \in {10, 40} <=> at \in {9, 39}
          /\ at' \in {13, 45} <=> at \in {13, 45}
      BY <1>2, <2>1
    <3>2. at' \in (3..41) \cup (46..50) => Clock1Off \in config'
      BY <1>3, <1>6, <3>1 DEF ConfigSound
    <3>3. at' \in (10..13) \cup (40..45) => Clock1Off \in local'
      <4>1. at' \in (10..13) \cup (40..45) => at \in {9, 39} /\ c = "config"
        BY <1>2, <2>1, <2>3
      <4>2. at \in {9, 39} => Clock1Off \in config
        BY <1>3 DEF ConfigSound
      <4> QED BY <1>7, <4>1, <4>2
    <3>4. at' \notin 43..45
      BY <2>3
    <3>5. at' \in 46..62 => Irq1 \in config'
      BY <1>3, <1>6, <3>1 DEF ConfigSound
    <3>6. ~writing' /\ at' \notin {13, 45}
      BY <1>2, <1>3, <1>6, <2>3 DEF ConfigSound
    <3> QED BY <3>2, <3>3, <3>4, <3>5, <3>6 DEF ConfigSound
  <2>5. AnswersSound'
    BY <1>6, <2>3 DEF AnswersSound
  <2>6. DeviceSound'
    <3>1. CASE at' \in {10, 26, 35, 40, 18, 22, 31, 27, 36}
      BY <3>1 DEF DeviceSound
    <3>2. CASE at' = 53
      <4>1. at = 52
        BY <1>2, <2>1, <3>2
      <4> QED BY <1>4, <1>6, <3>2, <4>1 DEF DeviceSound
    <3>3. CASE at' = 57
      <4>1. at = 56
        BY <1>2, <2>1, <3>3
      <4> QED BY <1>4, <1>6, <3>3, <4>1 DEF DeviceSound
    <3>4. CASE at' = 59
      <4>1. at = 58
        BY <1>2, <2>1, <3>4
      <4>2. \A i \in 1..Len(tx') : tx'[i] \notin Handled
        BY <1>1, <1>4, <1>6, <4>1, AnswersTyped, TailUnhandled
      <4> QED BY <1>4, <1>6, <3>4, <4>1, <4>2 DEF DeviceSound
    <3>5. CASE at' = 60
      <4>1. at = 59
        BY <1>2, <2>1, <3>5
      <4>2. \A i \in 1..Len(tx') : tx'[i] \notin Handled
        BY <1>4, <1>6, <4>1
      <4> QED BY <1>4, <1>6, <3>5, <4>1, <4>2 DEF DeviceSound
    <3> QED BY <2>3, <3>1, <3>2, <3>3, <3>4, <3>5
  <2> QED BY <2>2, <2>4, <2>5, <2>6
<1>13. Starting'
  BY <1>12 DEF Starting
<1> QED BY <1>10, <1>11, <1>13 DEF IInv

----------------------------------------------------------------------------
(* The handler.                                                            *)

\* A step that leaves what is under way as it is.
LEMMA SameDecoding ==
    ASSUME Alive, Upcoming' = Upcoming, UNCHANGED <<tx, held, scanning>>
    PROVE  Alive'
<1>1. PICK h \in States : Leads(Upcoming, tx, h) /\ Justified(h)
  BY DEF Alive, Decodes
<1>2. Leads(Upcoming', tx', h) /\ Justified(h)'
  BY <1>1 DEF Justified, SomeHeld
<1>3. Decodes'
  BY <1>2 DEF Decodes
<1> QED BY <1>3 DEF Alive

\* Interrupts are turned on; one is taken; the handler returns.
LEMMA IdleKeep ==
    ASSUME IInv, Sti \/ Interrupt \/ Return
    PROVE  IInv'
<1> USE DEF controller, device, driver, modifiers
<1>1. TypeInv /\ Latched /\ at = 62 /\ Irq1 \in config /\ (Dead \/ Alive)
  <2>1. Sti => at = 62
    BY ProgramOps DEF Sti
  <2>2. pc \in {"hlt", "return"} => at = 62
    BY DEF IInv, TypeInv
  <2>3. at = 62
    BY <2>1, <2>2 DEF Interrupt, Return
  <2> QED BY <2>3 DEF IInv, Started
<1>2. /\ UNCHANGED <<config, writing, out, data, env, tx, scanning, identity, held,
                     at, local, first, ports, shift, alt, control>>
      /\ pc \in {"init", "hlt", "return"} /\ pc' \in {"hlt", "code"}
      /\ irr' \in {FALSE, irr}
      /\ pc' = "hlt" => irr' = irr /\ pc \in {"init", "return"}
      /\ Full' = Full
  BY DEF Sti, Interrupt, Return, Full
<1>3. TypeInv'
  <2>1. irr' \in BOOLEAN
    BY <1>1, <1>2 DEF TypeInv
  <2> QED BY <1>1, <1>2, <2>1 DEF TypeInv
<1>4. Latched'
  BY <1>1, <1>2 DEF Latched
<1>5. Upcoming' = Upcoming
  <2>1. Now' = Now
    BY <1>2 DEF Now, StateOf, Prefixes
  <2> QED BY <1>2, <2>1 DEF Upcoming
<1>6. Dead => Dead'
  BY <1>2 DEF Dead, Unmodified
<1>7. Started'
  BY <1>1, <1>2, <1>5, <1>6, SameDecoding DEF Started
<1> QED BY <1>2, <1>3, <1>4, <1>7 DEF IInv, Starting

\* States that agree are equal.
LEMMA SameState ==
    ASSUME NEW g \in States, NEW h \in States, g.where = h.where,
           \A m \in Modifiers : m \in g.on <=> m \in h.on
    PROVE  g = h
<1>1. g.on \in SUBSET Modifiers /\ h.on \in SUBSET Modifiers
  BY DEF States
<1>2. g.on = h.on
  BY <1>1
<1>3. g = [where |-> g.where, on |-> g.on] /\ h = [where |-> h.where, on |-> h.on]
  BY DEF States
<1> QED BY <1>2, <1>3

\* The handler reads a byte: its state becomes the one that was upcoming.
LEMMA HandlerReads ==
    ASSUME IInv, pc \in {"code"} \cup Prefixes, Reads(pc), Now' = Step(Now, data), irr' = irr,
           pc' \in {"return"} \cup Prefixes,
           shift' \in BOOLEAN, alt' \in BOOLEAN, control' \in BOOLEAN
    PROVE  IInv'
<1> USE DEF controller, device, driver, modifiers
<1>1. TypeInv /\ at = 62 /\ Irq1 \in config /\ Full /\ Alive
  BY DEF Reads, IInv, TypeInv, Started, Dead, Prefixes
<1>2. /\ UNCHANGED <<config, writing, data, env, tx, scanning, identity, held, irr,
                     at, local, first, ports>>
      /\ out' = <<>> /\ ~Full' /\ pc' \notin {"init", "halted", "code"}
  BY DEF Reads, Full, Prefixes
<1>3. TypeInv'
  BY <1>1, <1>2 DEF TypeInv, Prefixes
<1>4. Upcoming' = Upcoming
  BY <1>1, <1>2 DEF Upcoming
<1>5. Started'
  BY <1>1, <1>2, <1>4, SameDecoding DEF Started
<1> QED BY <1>2, <1>3, <1>5 DEF IInv, Starting, Latched

\* The first byte of an interrupt.
LEMMA PressedKeeps ==
    ASSUME IInv, Pressed
    PROVE  IInv'
<1>1. TypeInv /\ Reads("code") /\ pc = "code"
  BY DEF IInv, Pressed, Reads
<1>2. /\ irr' = irr /\ pc' \in {"return"} \cup Prefixes
      /\ (IF pc' \in Prefixes THEN pc' ELSE "code")
            = (IF data = MULTIMEDIA THEN "multimedia"
               ELSE IF data = KEY_RELEASED THEN "released" ELSE "code")
  <2>1. CASE data = MULTIMEDIA
    BY <2>1 DEF Pressed, Await, Prefixes, MULTIMEDIA, KEY_RELEASED
  <2>2. CASE data = KEY_RELEASED
    BY <2>2 DEF Pressed, Await, Prefixes, MULTIMEDIA, KEY_RELEASED
  <2>3. CASE data \notin {MULTIMEDIA, KEY_RELEASED}
    BY <2>3 DEF Pressed, Echo, Prefixes
  <2> QED BY <2>1, <2>2, <2>3
<1>3. /\ shift' \in BOOLEAN /\ alt' \in BOOLEAN /\ control' \in BOOLEAN
      /\ shift \in BOOLEAN /\ alt \in BOOLEAN /\ control \in BOOLEAN
  BY <1>1 DEF Pressed, TypeInv
<1>4. /\ shift' <=> (shift \/ data \in ShiftReleases)
      /\ alt' <=> (alt \/ data = ALT)
      /\ control' <=> (control \/ data = CONTROL)
  BY DEF Pressed, ShiftReleases
<1>5. Now = StateOf(pc, shift, control, alt) /\ Now' = StateOf(pc', shift', control', alt')
  BY DEF Now
<1>6. PICK p, q : p = pc /\ q = pc'
  OBVIOUS
<1>7. /\ Now \in States /\ Now.where = "code"
      /\ ("shift" \in Now.on <=> shift) /\ ("control" \in Now.on <=> control)
      /\ ("alt" \in Now.on <=> alt)
  <2>1. p \notin Prefixes
    BY <1>1, <1>6 DEF Prefixes
  <2>2. /\ StateOf(p, shift, control, alt) \in States
        /\ StateOf(p, shift, control, alt).where = "code"
        /\ ("shift" \in StateOf(p, shift, control, alt).on <=> shift)
        /\ ("control" \in StateOf(p, shift, control, alt).on <=> control)
        /\ ("alt" \in StateOf(p, shift, control, alt).on <=> alt)
    BY <1>3, <2>1, StatesAre
  <2> QED BY <1>5, <1>6, <2>2
<1>8. /\ Now' \in States /\ Now'.where = IF pc' \in Prefixes THEN pc' ELSE "code"
      /\ ("shift" \in Now'.on <=> shift') /\ ("control" \in Now'.on <=> control')
      /\ ("alt" \in Now'.on <=> alt')
  <2>1. Now' = StateOf(q, shift', control', alt')
    BY <1>5, <1>6
  <2>2. /\ StateOf(q, shift', control', alt') \in States
        /\ StateOf(q, shift', control', alt').where = IF q \in Prefixes THEN q ELSE "code"
        /\ ("shift" \in StateOf(q, shift', control', alt').on <=> shift')
        /\ ("control" \in StateOf(q, shift', control', alt').on <=> control')
        /\ ("alt" \in StateOf(q, shift', control', alt').on <=> alt')
    BY <1>3, StatesAre
  <2> QED BY <1>6, <2>1, <2>2
<1>9. Step(Now, data) = AfterCode(Now, data) /\ Step(Now, data) \in States
  BY <1>7, StepIsState DEF Step
<1>10. /\ "shift" \in PlainNames(data) <=> data \in ShiftReleases
       /\ "control" \in PlainNames(data) <=> data = CONTROL
       /\ "alt" \in PlainNames(data) <=> data = ALT
  BY DEF PlainNames, Names
<1>11. Now'.where = AfterCode(Now, data).where
  BY <1>2, <1>8 DEF AfterCode
<1>12. \A m \in Modifiers : m \in Now'.on <=> m \in AfterCode(Now, data).on
  BY <1>4, <1>7, <1>8, <1>10 DEF AfterCode, Modifiers
<1>13. Now' = Step(Now, data)
  BY <1>8, <1>9, <1>11, <1>12, SameState
<1> QED BY <1>1, <1>2, <1>3, <1>13, HandlerReads

\* The byte after a prefix, of a key pressed or of one released.
LEMMA AfterMultimediaKeeps ==
    ASSUME IInv, AfterMultimedia
    PROVE  IInv'
<1>1. TypeInv /\ Reads(pc) /\ pc \in {"multimedia", "released multimedia"}
  BY DEF IInv, AfterMultimedia
<1>2. /\ irr' = irr /\ pc' \in {"return"} \cup Prefixes
      /\ (IF pc' \in Prefixes THEN pc' ELSE "code")
            = (IF pc = "multimedia" /\ data = KEY_RELEASED THEN "released" ELSE "code")
  <2>1. CASE pc = "multimedia" /\ data = KEY_RELEASED
    BY <2>1 DEF AfterMultimedia, Await, Prefixes
  <2>2. CASE ~(pc = "multimedia" /\ data = KEY_RELEASED)
    BY <2>2 DEF AfterMultimedia, Echo, Prefixes
  <2> QED BY <2>1, <2>2
<1>3. shift \in BOOLEAN /\ alt \in BOOLEAN /\ control \in BOOLEAN
  BY <1>1 DEF TypeInv
<1>4. /\ shift' = shift
      /\ pc = "multimedia" => /\ alt' = (alt \/ data = ALT)
                              /\ control' = (control \/ data = CONTROL)
      /\ pc # "multimedia" => /\ alt' = (alt /\ data # ALT)
                              /\ control' = (control /\ data # CONTROL)
  BY DEF AfterMultimedia
<1>5. shift' \in BOOLEAN /\ alt' \in BOOLEAN /\ control' \in BOOLEAN
  BY <1>3, <1>4
<1>6. Now = StateOf(pc, shift, control, alt) /\ Now' = StateOf(pc', shift', control', alt')
  BY DEF Now
<1>7. PICK p, q : p = pc /\ q = pc'
  OBVIOUS
<1>8. /\ Now \in States /\ Now.where = pc
      /\ ("shift" \in Now.on <=> shift) /\ ("control" \in Now.on <=> control)
      /\ ("alt" \in Now.on <=> alt)
  <2>1. p \in Prefixes
    BY <1>1, <1>7 DEF Prefixes
  <2>2. /\ StateOf(p, shift, control, alt) \in States
        /\ StateOf(p, shift, control, alt).where = p
        /\ ("shift" \in StateOf(p, shift, control, alt).on <=> shift)
        /\ ("control" \in StateOf(p, shift, control, alt).on <=> control)
        /\ ("alt" \in StateOf(p, shift, control, alt).on <=> alt)
    BY <1>3, <2>1, StatesAre
  <2> QED BY <1>6, <1>7, <2>2
<1>9. /\ Now' \in States /\ Now'.where = IF pc' \in Prefixes THEN pc' ELSE "code"
      /\ ("shift" \in Now'.on <=> shift') /\ ("control" \in Now'.on <=> control')
      /\ ("alt" \in Now'.on <=> alt')
  BY <1>5, <1>6, <1>7, StatesAre
<1>10. /\ "shift" \notin Names(data)
       /\ "control" \in Names(data) <=> data = CONTROL
       /\ "alt" \in Names(data) <=> data = ALT
  BY DEF Names
<1>11. CASE pc = "multimedia"
  <2>1. Step(Now, data) = AfterPrefix(Now, data) /\ Step(Now, data) \in States
    <3>1. Step(Now, data) = AfterPrefix(Now, data)
      BY <1>8, <1>11, StepIs
    <3>2. Step(Now, data) \in States
      BY <1>8, StepIsState
    <3> QED BY <3>1, <3>2
  <2>2. Now'.where = AfterPrefix(Now, data).where
    BY <1>2, <1>9, <1>11 DEF AfterPrefix
  <2>3. /\ alt' <=> (alt \/ data = ALT)
        /\ control' <=> (control \/ data = CONTROL)
        /\ shift' <=> shift
    BY <1>4, <1>11
  <2>4. \A m \in Modifiers : m \in Now'.on <=> m \in AfterPrefix(Now, data).on
    BY <1>8, <1>9, <1>10, <2>3 DEF AfterPrefix, Modifiers
  <2>5. Now' = Step(Now, data)
    BY <1>9, <2>1, <2>2, <2>4, SameState
  <2>6. pc \in {"code"} \cup Prefixes
    BY <1>11 DEF Prefixes
  <2> QED BY <1>1, <1>2, <1>5, <2>5, <2>6, HandlerReads
<1>12. CASE pc = "released multimedia"
  <2>1. Step(Now, data) = AfterBoth(Now, data) /\ Step(Now, data) \in States
    <3>1. Step(Now, data) = AfterBoth(Now, data)
      BY <1>8, <1>12, StepIs
    <3>2. Step(Now, data) \in States
      BY <1>8, StepIsState
    <3> QED BY <3>1, <3>2
  <2>2. Now'.where = AfterBoth(Now, data).where
    BY <1>2, <1>9, <1>12 DEF AfterBoth
  <2>3. /\ alt' <=> (alt /\ data # ALT)
        /\ control' <=> (control /\ data # CONTROL)
        /\ shift' <=> shift
    BY <1>4, <1>12
  <2>4. \A m \in Modifiers : m \in Now'.on <=> m \in AfterBoth(Now, data).on
    BY <1>8, <1>9, <1>10, <2>3 DEF AfterBoth, Modifiers
  <2>5. Now' = Step(Now, data)
    BY <1>9, <2>1, <2>2, <2>4, SameState
  <2>6. pc \in {"code"} \cup Prefixes
    BY <1>12 DEF Prefixes
  <2> QED BY <1>1, <1>2, <1>5, <2>5, <2>6, HandlerReads
<1> QED BY <1>1, <1>11, <1>12

\* The byte after KEY_RELEASED.
LEMMA ReleasedKeeps ==
    ASSUME IInv, Released
    PROVE  IInv'
<1>1. TypeInv /\ Reads("released") /\ pc = "released"
  BY DEF IInv, Released, Reads
<1>2. /\ irr' = irr /\ pc' \in {"return"} \cup Prefixes
      /\ (IF pc' \in Prefixes THEN pc' ELSE "code")
            = (IF data = MULTIMEDIA THEN "released multimedia" ELSE "code")
  <2>1. CASE data = MULTIMEDIA
    BY <2>1 DEF Released, Await, Prefixes
  <2>2. CASE data # MULTIMEDIA
    BY <2>2 DEF Released, Await, Prefixes
  <2> QED BY <2>1, <2>2
<1>3. shift \in BOOLEAN /\ alt \in BOOLEAN /\ control \in BOOLEAN
  BY <1>1 DEF TypeInv
<1>4. /\ shift' = (shift /\ data \notin ShiftReleases)
      /\ alt' = (alt /\ data # ALT)
      /\ control' = (control /\ data # CONTROL)
  BY DEF Released
<1>5. shift' \in BOOLEAN /\ alt' \in BOOLEAN /\ control' \in BOOLEAN
  BY <1>4
<1>6. Now = StateOf(pc, shift, control, alt) /\ Now' = StateOf(pc', shift', control', alt')
  BY DEF Now
<1>7. PICK p, q : p = pc /\ q = pc'
  OBVIOUS
<1>8. /\ Now \in States /\ Now.where = "released"
      /\ ("shift" \in Now.on <=> shift) /\ ("control" \in Now.on <=> control)
      /\ ("alt" \in Now.on <=> alt)
  <2>1. p \in Prefixes
    BY <1>1, <1>7 DEF Prefixes
  <2>2. /\ StateOf(p, shift, control, alt) \in States
        /\ StateOf(p, shift, control, alt).where = p
        /\ ("shift" \in StateOf(p, shift, control, alt).on <=> shift)
        /\ ("control" \in StateOf(p, shift, control, alt).on <=> control)
        /\ ("alt" \in StateOf(p, shift, control, alt).on <=> alt)
    BY <1>3, <2>1, StatesAre
  <2> QED BY <1>1, <1>6, <1>7, <2>2
<1>9. /\ Now' \in States /\ Now'.where = IF pc' \in Prefixes THEN pc' ELSE "code"
      /\ ("shift" \in Now'.on <=> shift') /\ ("control" \in Now'.on <=> control')
      /\ ("alt" \in Now'.on <=> alt')
  BY <1>5, <1>6, <1>7, StatesAre
<1>10. /\ "shift" \in PlainNames(data) <=> data \in ShiftReleases
       /\ "control" \in PlainNames(data) <=> data = CONTROL
       /\ "alt" \in PlainNames(data) <=> data = ALT
  BY DEF PlainNames, Names
<1>11. Step(Now, data) = AfterRelease(Now, data) /\ Step(Now, data) \in States
  BY <1>8, StepIsState DEF Step
<1>12. Now'.where = AfterRelease(Now, data).where
  BY <1>2, <1>9 DEF AfterRelease
<1>13. \A m \in Modifiers : m \in Now'.on <=> m \in AfterRelease(Now, data).on
  <2>1. /\ shift' <=> (shift /\ data \notin ShiftReleases)
        /\ alt' <=> (alt /\ data # ALT)
        /\ control' <=> (control /\ data # CONTROL)
    BY <1>4
  <2> QED BY <1>8, <1>9, <1>10, <2>1 DEF AfterRelease, Modifiers
<1>14. Now' = Step(Now, data)
  BY <1>9, <1>11, <1>12, <1>13, SameState
<1>15. pc \in {"code"} \cup Prefixes
  BY <1>1 DEF Prefixes
<1> QED BY <1>1, <1>2, <1>5, <1>14, <1>15, HandlerReads

----------------------------------------------------------------------------
(* The controller and the person.                                          *)

\* A byte of the device comes to the output buffer.
LEMMA DeliverKeeps ==
    ASSUME IInv, Deliver
    PROVE  IInv'
<1> USE DEF controller, device, driver, modifiers
<1>1. TypeInv /\ Starting /\ Latched /\ Started
  BY DEF IInv
<1>2. /\ ~Full /\ tx # <<>> /\ Clock1Off \notin config
      /\ data' = Head(tx) /\ out' = <<data'>> /\ tx' = Tail(tx)
      /\ irr' = (irr \/ Irq1 \in config)
      /\ UNCHANGED <<env, config, writing, scanning, identity, held, pc, at, local, first, ports,
                     shift, alt, control>>
  BY DEF Deliver, CanDeliver, Fill
<1>3. Full'
  <2>1. <<data'>> # <<>>
    OBVIOUS
  <2> QED BY <1>2, <2>1 DEF Full
<1>4. tx \in Seq(Byte) /\ Head(tx) \in Byte /\ Tail(tx) \in Seq(Byte)
  BY <1>1, <1>2, HeadTailProperties DEF TypeInv
<1>5. TypeInv'
  <2>1. data' \in 0..256
    BY <1>2, <1>4 DEF Byte
  <2>2. irr' \in BOOLEAN
    BY <1>1, <1>2 DEF TypeInv
  <2>3. out' \in {<<>>, <<data'>>}
    BY <1>2
  <2>4. tx' \in Seq(Byte)
    BY <1>2, <1>4
  <2>5. env' \in Environments /\ held' \subseteq env'.keys /\ identity' \in Identities
    BY <1>1, <1>2 DEF TypeInv
  <2>6. /\ config' \in SUBSET Bits /\ local' \in SUBSET Bits
        /\ writing' \in BOOLEAN /\ scanning' \in BOOLEAN
        /\ shift' \in BOOLEAN /\ alt' \in BOOLEAN /\ control' \in BOOLEAN
        /\ first' \in 0..256 /\ ports' \in SUBSET {1, 2}
    BY <1>1, <1>2 DEF TypeInv
  <2>7. PcTyped'
    BY <1>1, <1>2 DEF TypeInv, PcTyped
  <2> QED BY <2>1, <2>2, <2>3, <2>4, <2>5, <2>6, <2>7 DEF TypeInv, PcTyped
<1>6. ASSUME pc = "init" PROVE ConfigSound' /\ AnswersSound' /\ DeviceSound'
                               /\ (at' # 62 => Unmodified')
  <2>1. ConfigSound /\ AnswersSound /\ DeviceSound /\ (at # 62 => Unmodified)
    BY <1>1, <1>6 DEF Starting
  <2>2. at \notin (3..41) \cup (46..50)
    BY <1>2, <2>1 DEF ConfigSound
  <2>3. AnswersSound'
    BY <1>2, <2>2 DEF AnswersSound
  <2>4. DeviceSound'
    <3>1. at \in 51..61 => ~scanning'
      BY <1>2, <2>1 DEF DeviceSound
    <3>2. at \in {51, 52} => data' = ACK /\ tx' = <<>>
      <4>1. at \in {51, 52} => tx = <<ACK>>
        BY <1>2, <2>1 DEF DeviceSound
      <4>2. <<>> \in Seq(Byte) /\ <<ACK>> \o <<>> = <<ACK>>
        BY JustAck, ConcatEmptySeq
      <4>3. Head(<<ACK>>) = ACK /\ Tail(<<ACK>>) = <<>>
        BY <4>2, AckThen
      <4> QED BY <1>2, <4>1, <4>3
    <3>3. at \notin {53, 54}
      BY <1>2, <2>1 DEF DeviceSound
    <3>4. at \in {55, 56} => data' = ACK /\ tx' = identity
      <4>1. at \in {55, 56} => tx = <<ACK>> \o identity
        BY <1>2, <2>1 DEF DeviceSound
      <4> QED BY <1>1, <1>2, <4>1, AnswersTyped, AckThen
    <3>5. at \in {57, 58} => data' = Head(identity) /\ tx' = Tail(identity)
      BY <1>2, <2>1 DEF DeviceSound
    <3>6. ASSUME at \in 59..61
          PROVE  data' \notin Handled /\ \A i \in 1..Len(tx') : tx'[i] \notin Handled
      <4>1. \A i \in 1..Len(tx) : tx[i] \notin Handled
        BY <2>1, <3>6 DEF DeviceSound
      <4>2. 1 \in 1..Len(tx) /\ Head(tx) = tx[1] /\ 2..Len(tx) \subseteq 1..Len(tx)
        BY <1>2, <1>4, EmptySeq
      <4>3. data' \notin Handled
        BY <1>2, <4>1, <4>2
      <4>4. \A i \in 1..Len(Tail(tx)) : Tail(tx)[i] \notin Handled
        BY <1>2, <1>4, <4>1, <4>2, TailUnhandled
      <4> QED BY <1>2, <4>3, <4>4
    <3> QED BY <1>2, <1>3, <3>1, <3>2, <3>3, <3>4, <3>5, <3>6 DEF DeviceSound
  <2>5. ConfigSound' /\ (at' # 62 => Unmodified')
    BY <1>2, <2>1 DEF ConfigSound, Unmodified
  <2> QED BY <2>3, <2>4, <2>5
<1>7. Starting'
  BY <1>2, <1>6 DEF Starting
<1>8. Latched'
  <2>1. ASSUME at \in 47..62, pc \notin {"code", "halted"} PROVE Irq1 \in config
    <3>1. CASE pc = "init"
      BY <1>1, <2>1, <3>1 DEF Starting, ConfigSound
    <3>2. CASE pc # "init"
      BY <1>1, <2>1, <3>2 DEF TypeInv, Started
    <3> QED BY <3>1, <3>2
  <2> QED BY <1>2, <2>1 DEF Latched
<1>9. Started'
  <2>1. SUFFICES ASSUME at = 62 PROVE Irq1 \in config' /\ Alive'
    BY <1>2 DEF Started
  <2>2. Irq1 \in config /\ Alive
    BY <1>1, <1>2, <2>1 DEF Started, Dead
  <2>3. PICK h \in States : Leads(Upcoming, tx, h) /\ Justified(h)
    BY <2>2 DEF Alive, Decodes
  <2>4. Upcoming = Now /\ Now' = Now /\ Upcoming' = Step(Now', data')
    BY <1>2, <1>3 DEF Upcoming, Now
  <2>5. Leads(Step(Now, Head(tx)), Tail(tx), h)
    BY <1>2, <1>4, <2>3, <2>4, FirstByte
  <2>6. Leads(Upcoming', tx', h)
    BY <1>2, <2>4, <2>5
  <2>7. Justified(h)'
    BY <1>2, <2>3 DEF Justified, SomeHeld
  <2>8. Decodes'
    BY <2>6, <2>7 DEF Decodes
  <2> QED BY <1>2, <2>2, <2>8 DEF Alive
<1> QED BY <1>5, <1>7, <1>8, <1>9 DEF IInv

\* A key is pressed or released.
LEMMA KeyKeeps ==
    ASSUME IInv, NEW k \in env.keys, Key(k)
    PROVE  IInv'
<1> USE DEF controller, device, driver, modifiers
<1> DEFINE codes == IF k \in held THEN Release(k) ELSE Code[k]
<1>1. TypeInv /\ Starting /\ Latched /\ Started
  BY DEF IInv
<1>2. /\ held' = IF k \in held THEN held \ {k} ELSE held \cup {k}
      /\ tx' = IF scanning THEN tx \o codes ELSE tx
      /\ UNCHANGED <<env, config, writing, out, data, scanning, identity, irr, pc, at, local,
                     first, ports, shift, alt, control>>
      /\ Full' = Full
  BY DEF Key, Full
<1>3. k \in DOMAIN Code
  BY <1>1, KeysHaveCodes DEF TypeInv
<1>4. codes \in Seq(Byte)
  <2>1. PICK g : g = [where |-> "code", on |-> {}]
    OBVIOUS
  <2>2. g \in States /\ g.where = "code"
    BY <2>1 DEF States
  <2> QED BY <1>3, <2>2, PressLeads, ReleaseLeads
<1> HIDE DEF codes
<1>5. TypeInv'
  <2>1. tx' \in Seq(Byte)
    BY <1>1, <1>2, <1>4, ConcatProperties DEF TypeInv
  <2>2. held' \subseteq env.keys
    BY <1>1, <1>2 DEF TypeInv
  <2>3. out' \in {<<>>, <<data'>>} /\ data' \in 0..256
    BY <1>1, <1>2 DEF TypeInv
  <2>4. env' \in Environments /\ held' \subseteq env'.keys /\ identity' \in Identities
    BY <1>1, <1>2, <2>2 DEF TypeInv
  <2>5. /\ config' \in SUBSET Bits /\ local' \in SUBSET Bits
        /\ writing' \in BOOLEAN /\ scanning' \in BOOLEAN /\ irr' \in BOOLEAN
        /\ shift' \in BOOLEAN /\ alt' \in BOOLEAN /\ control' \in BOOLEAN
        /\ first' \in 0..256 /\ ports' \in SUBSET {1, 2}
    BY <1>1, <1>2 DEF TypeInv
  <2>6. PcTyped'
    BY <1>1, <1>2 DEF TypeInv, PcTyped
  <2> QED BY <2>1, <2>3, <2>4, <2>5, <2>6 DEF TypeInv, PcTyped
<1>6. Starting'
  <2>1. SUFFICES ASSUME pc = "init"
                 PROVE  ConfigSound' /\ AnswersSound' /\ DeviceSound' /\ (at' # 62 => Unmodified')
    BY <1>2 DEF Starting
  <2>2. ConfigSound /\ AnswersSound /\ DeviceSound /\ (at # 62 => Unmodified)
    BY <1>1, <2>1 DEF Starting
  <2>3. ConfigSound' /\ AnswersSound' /\ (at' # 62 => Unmodified')
    BY <1>2, <2>2 DEF ConfigSound, AnswersSound, Unmodified
  <2>4. CASE at \in 51..61
    <3>1. tx' = tx
      BY <1>2, <2>2, <2>4 DEF DeviceSound
    <3>2. DeviceSound'
      BY <1>2, <2>2, <3>1 DEF DeviceSound
    <3> QED BY <2>3, <3>2
  <2>5. CASE at \notin 51..61
    <3>1. DeviceSound'
      BY <1>2, <2>5 DEF DeviceSound
    <3> QED BY <2>3, <3>1
  <2> QED BY <2>4, <2>5
<1>7. Latched'
  BY <1>1, <1>2 DEF Latched
<1>8. Dead => Dead'
  BY <1>2 DEF Dead, Unmodified
<1>9. ASSUME Alive PROVE Alive'
  <2>1. PICK h \in States : Leads(Upcoming, tx, h) /\ Justified(h)
    BY <1>9 DEF Alive, Decodes
  <2>2. scanning /\ tx' = tx \o codes /\ tx \in Seq(Byte)
    BY <1>1, <1>2, <1>9 DEF Alive, TypeInv
  <2>3. Upcoming' = Upcoming
    BY <1>2 DEF Upcoming, Now
  <2>4. h.where = "code"
    BY <2>1 DEF Justified
  <2>5. CASE k \notin held
    <3>1. PICK f \in States : /\ Leads(h, Code[k], f) /\ f.where = "code"
                              /\ f.on = h.on \cup KeyModifier(k)
      BY <1>3, <2>4, PressLeads
    <3>2. codes = Code[k] /\ held' = held \cup {k}
      BY <1>2, <2>5 DEF codes
    <3>3. Leads(Upcoming, tx \o codes, f)
      BY <1>4, <2>1, <2>2, <3>1, <3>2, OneAfterTheOther
    <3>4. Justified(f)'
      <4>1. /\ "shift" \in KeyModifier(k) => k \in {"lshift", "rshift"}
            /\ "control" \in KeyModifier(k) => k \in {"lctrl", "rctrl"}
            /\ "alt" \in KeyModifier(k) => k \in {"ralt"}
        BY DEF KeyModifier
      <4>2. ASSUME NEW K, SomeHeld(K) \/ k \in K PROVE SomeHeld(K)'
        BY <3>2, <4>2 DEF SomeHeld
      <4> QED BY <2>1, <3>1, <4>1, <4>2 DEF Justified
    <3> QED BY <1>2, <2>2, <2>3, <3>3, <3>4 DEF Alive, Decodes
  <2>6. CASE k \in held
    <3>1. PICK f \in States : /\ Leads(h, Release(k), f) /\ f.where = "code"
                              /\ f.on \subseteq h.on \ KeyModifier(k)
      BY <1>3, <2>4, ReleaseLeads
    <3>2. codes = Release(k) /\ held' = held \ {k}
      BY <1>2, <2>6 DEF codes
    <3>3. Leads(Upcoming, tx \o codes, f)
      BY <1>4, <2>1, <2>2, <3>1, <3>2, OneAfterTheOther
    <3>4. Justified(f)'
      <4>1. /\ k \in {"lshift", "rshift"} => "shift" \in KeyModifier(k)
            /\ k \in {"lctrl", "rctrl"} => "control" \in KeyModifier(k)
            /\ k \in {"ralt"} => "alt" \in KeyModifier(k)
        BY DEF KeyModifier
      <4>2. ASSUME NEW K, SomeHeld(K), k \notin K PROVE SomeHeld(K)'
        BY <3>2, <4>2 DEF SomeHeld
      <4> QED BY <2>1, <3>1, <4>1, <4>2 DEF Justified
    <3> QED BY <1>2, <2>2, <2>3, <3>3, <3>4 DEF Alive, Decodes
  <2> QED BY <2>5, <2>6
<1>10. Started'
  BY <1>1, <1>2, <1>8, <1>9 DEF Started
<1> QED BY <1>5, <1>6, <1>7, <1>10 DEF IInv

----------------------------------------------------------------------------
(* The theorems.                                                           *)

\* Every step keeps the invariant.
LEMMA StepsKeep == IInv /\ [Next]_vars => IInv'
<1> SUFFICES ASSUME IInv, [Next]_vars PROVE IInv'
  OBVIOUS
<1>1. ASSUME NEW k \in env.keys, Key(k) PROVE IInv'
  BY <1>1, KeyKeeps
<1>2. ASSUME InitStep PROVE IInv'
  BY <1>2, WaitsKeep, CommandsKeep, DataKeeps, FlushKeeps, ReadKeeps, ChangeKeeps, PortsKeep,
     IdleKeep DEF InitStep
<1>3. ASSUME HandlerStep PROVE IInv'
  BY <1>3, IdleKeep, PressedKeeps, AfterMultimediaKeeps, ReleasedKeeps DEF HandlerStep
<1>4. ASSUME UNCHANGED vars PROVE IInv'
  <2>1. UNCHANGED <<config, writing, out, data, env, tx, scanning, identity, held, irr, pc, at,
                    local, first, ports, shift, alt, control>>
    BY <1>4 DEF vars, controller, device, driver, modifiers
  <2>2. TypeInv' /\ Latched' /\ Full' = Full
    <3>1. Full' = Full
      BY <2>1 DEF Full
    <3>2. PcTyped'
      BY <2>1 DEF IInv, TypeInv, PcTyped
    <3>3. /\ config' \in SUBSET Bits /\ local' \in SUBSET Bits
          /\ writing' \in BOOLEAN /\ scanning' \in BOOLEAN /\ irr' \in BOOLEAN
          /\ shift' \in BOOLEAN /\ alt' \in BOOLEAN /\ control' \in BOOLEAN
          /\ data' \in 0..256 /\ first' \in 0..256 /\ ports' \in SUBSET {1, 2}
      BY <2>1 DEF IInv, TypeInv
    <3>4. /\ env' \in Environments /\ held' \subseteq env'.keys /\ identity' \in Identities
          /\ out' \in {<<>>, <<data'>>} /\ tx' \in Seq(Byte)
      BY <2>1 DEF IInv, TypeInv
    <3>5. TypeInv'
      BY <3>2, <3>3, <3>4 DEF TypeInv, PcTyped
    <3> QED BY <2>1, <3>1, <3>5 DEF IInv, Latched
  <2>3. Starting'
    <3>1. ConfigSound => ConfigSound'
      BY <2>1 DEF ConfigSound
    <3>2. AnswersSound => AnswersSound'
      BY <2>1, <2>2 DEF AnswersSound
    <3>3. DeviceSound => DeviceSound'
      BY <2>1, <2>2 DEF DeviceSound
    <3> QED BY <2>1, <3>1, <3>2, <3>3 DEF IInv, Starting, Unmodified
  <2>4. Upcoming' = Upcoming
    BY <2>1 DEF Upcoming, Now, Full
  <2>5. Started'
    BY <2>1, <2>4, SameDecoding DEF IInv, Started, Dead, Unmodified, Full
  <2> QED BY <2>2, <2>3, <2>5 DEF IInv
<1> QED BY <1>1, <1>2, <1>3, <1>4, DeliverKeeps DEF Next

\* The driver's place determines what the controller and the device hold, and the
\* bytes under way leave no modifier stuck.
THEOREM Ps2Invariant == Spec => []IInv
BY Begins, StepsKeep, PTL DEF Spec

\* Every variable keeps its type.
THEOREM TypeCorrect == Spec => []TypeOK
<1>1. IInv => TypeOK
  <2> SUFFICES ASSUME IInv PROVE TypeOK
    OBVIOUS
  <2>1. TypeInv
    BY DEF IInv
  <2>2. Len(out) <= 1 /\ \A i \in DOMAIN out : out[i] \in 0..256
    <3>1. data \in 0..256
      BY <2>1 DEF TypeInv
    <3>2. CASE out = <<>>
      BY <3>2
    <3>3. CASE out = <<data>>
      BY <3>1, <3>3
    <3> QED BY <2>1, <3>2, <3>3 DEF TypeInv
  <2>3. \A i \in DOMAIN tx : tx[i] \in 0..255
    <3>1. tx \in Seq(Byte)
      BY <2>1 DEF TypeInv
    <3>2. DOMAIN tx = 1..Len(tx)
      BY <3>1, LenProperties
    <3> QED BY <3>1, <3>2, ElementOfSeq DEF Byte
  <2>4. at \in 1..(Len(Program) + 1)
    <3>1. Len(Program) = 61
      BY ProgramOps
    <3>2. Len(Program) + 1 = 62
      BY <3>1
    <3>3. at \in 1..62
      BY <2>1 DEF TypeInv
    <3> QED BY <3>2, <3>3
  <2>5. {config, local} \subseteq SUBSET Bits /\ {shift, alt, control} \subseteq BOOLEAN
    BY <2>1 DEF TypeInv
  <2> QED BY <2>1, <2>2, <2>3, <2>4, <2>5 DEF TypeInv, TypeOK
<1> QED BY <1>1, Ps2Invariant, PTL

\* What the driver has waited for is the answer to what it asked, never a scan code:
\* the assertion of ps2_poll_ack holds, for every device and person.
THEOREM AnswersAreExpected == Spec => []AnswersExpected
<1>1. IInv => AnswersExpected
  <2> SUFFICES ASSUME IInv, pc = "init", at <= Len(Program), Program[at].op = "read",
                      Program[at].arg \in DOMAIN Answers
               PROVE  Full /\ out[1] \in Answers[Program[at].arg]
    BY DEF AnswersExpected, Arg
  <2>1. TypeInv /\ AnswersSound /\ DeviceSound
    BY DEF IInv, Starting
  <2>2. at \in 1..61
    BY <2>1, ProgramOps DEF TypeInv
  <2> DEFINE c == Program[at].arg
  <2>3. \/ at \in {9, 25, 34, 39} /\ c = "config"
        \/ at = 17 /\ c = "self_test"
        \/ at \in {21, 30} /\ c = "test"
        \/ at \in {52, 56} /\ c = "ack"
        \/ at = 58 /\ c = "first"
        \/ at = 59 /\ c = "second"
    BY <2>2, ReadsStand
  <2>4. c \in {"config", "self_test", "test", "ack", "first"}
    BY DEF Answers
  <2> HIDE DEF c
  <2>5. /\ Full
        /\ c = "config" => data = CONFIG
        /\ c = "self_test" => data = PASSED
        /\ c = "test" => data \in {PORT_OK, PORT_BAD}
        /\ c = "ack" => data = ACK
        /\ c = "first" => data = Head(identity)
    <3>1. CASE at \in {9, 25, 34, 39} /\ c = "config"
      BY <2>1, <3>1 DEF AnswersSound
    <3>2. CASE at = 17 /\ c = "self_test"
      BY <2>1, <3>2 DEF AnswersSound
    <3>3. CASE at \in {21, 30} /\ c = "test"
      BY <2>1, <3>3 DEF AnswersSound
    <3>4. CASE at \in {52, 56} /\ c = "ack"
      BY <2>1, <3>4 DEF DeviceSound
    <3>5. CASE at = 58 /\ c = "first"
      BY <2>1, <3>5 DEF DeviceSound
    <3> QED BY <2>3, <2>4, <3>1, <3>2, <3>3, <3>4, <3>5
  <2>6. out[1] = data
    <3>1. out = <<data>>
      BY <2>1, <2>5 DEF TypeInv, Full
    <3> QED BY <3>1
  <2>7. data \in Answers[c]
    BY <2>4, <2>5 DEF Answers
  <2> QED BY <2>5, <2>6, <2>7 DEF c
<1> QED BY <1>1, Ps2Invariant, PTL

\* A byte that waits in the output buffer while the processor sleeps has its
\* interrupt latched.
THEOREM InterruptsAreKept == Spec => []NoLostInterrupt
<1>1. IInv => NoLostInterrupt
  BY DEF IInv, TypeInv, Latched, NoLostInterrupt
<1> QED BY <1>1, Ps2Invariant, PTL

\* Once every byte is handled no modifier is on without its key, whenever and
\* however fast the keys were used.
THEOREM ModifiersComeOff == Spec => []NoStuckModifier
<1>1. IInv => NoStuckModifier
  <2> SUFFICES ASSUME IInv, Caught
               PROVE  /\ shift => SomeHeld({"lshift", "rshift"})
                      /\ control => SomeHeld({"lctrl", "rctrl"})
                      /\ alt => SomeHeld({"ralt"})
    BY DEF NoStuckModifier
  <2>1. at = 62 /\ (Dead \/ Alive)
    BY DEF IInv, TypeInv, Started, Caught
  <2>2. ASSUME Alive PROVE Justified(Now)
    <3>1. PICK h \in States : Leads(Upcoming, tx, h) /\ Justified(h)
      BY <2>2 DEF Alive, Decodes
    <3>2. Upcoming = Now /\ Len(tx) = 0
      BY DEF Caught, Upcoming
    <3>3. PICK r : IsRun(r, Now, tx, h)
      BY <3>1, <3>2 DEF Leads
    <3>4. h = Now
      BY <3>2, <3>3 DEF IsRun
    <3> QED BY <3>1, <3>4
  <2>3. /\ "shift" \in Now.on <=> shift
        /\ "control" \in Now.on <=> control
        /\ "alt" \in Now.on <=> alt
    <3>1. PICK p : p = pc
      OBVIOUS
    <3>2. shift \in BOOLEAN /\ control \in BOOLEAN /\ alt \in BOOLEAN
      BY DEF IInv, TypeInv
    <3> QED BY <3>1, <3>2, StatesAre DEF Now
  <2>4. CASE Dead
    BY <2>4 DEF Dead, Unmodified
  <2>5. CASE Alive
    BY <2>2, <2>3, <2>5 DEF Justified
  <2> QED BY <2>1, <2>4, <2>5
<1> QED BY <1>1, Ps2Invariant, PTL

----------------------------------------------------------------------------
(* That ps2_keyboard_init comes to an end.                                 *)

\* Where the controller's answer may be in the buffer.
Answering == {8, 9, 16, 17, 20, 21, 24, 25, 29, 30, 33, 34, 38, 39}

\* Nothing comes but what was asked for, what was asked for is read, and the device may
\* send while its answer is awaited.
Quiet ==
    /\ at \in 1..50 => tx = <<>>
    /\ at \in 1..50 /\ at \notin Answering => ~Full
    /\ at \in 51..61 => Clock1Off \notin config
    /\ at = 59 => Len(tx) <= 1 /\ (Full => tx = <<>>)
    /\ at \in {60, 61} => ~Full /\ tx = <<>>

QuietInv == Undisturbed /\ pc = "init" => Quiet

\* Which steps there are while the driver starts and nobody disturbs it.
LEMMA StartingSteps ==
    ASSUME Undisturbed', [Next]_vars, pc' = "init"
    PROVE  /\ Undisturbed /\ pc = "init"
           /\ (InitStep /\ ~Sti) \/ Deliver \/ UNCHANGED vars
<1> USE DEF controller, device, driver, modifiers
<1>1. env' = env
  <2>1. CASE InitStep
    BY <2>1 DEF InitStep, WaitWrite, WaitRead, OutCommand, Command, OutData, Data, Flush,
                Read, Change, Port, IfPort1, Sti
  <2>2. CASE HandlerStep
    BY <2>2 DEF HandlerStep, Interrupt, Pressed, AfterMultimedia, Released, Return, Reads
  <2>3. CASE Deliver \/ (\E k \in env.keys : Key(k)) \/ UNCHANGED vars
    BY <2>3 DEF Deliver, Key, vars
  <2> QED BY <2>1, <2>2, <2>3 DEF Next
<1>2. Undisturbed
  BY <1>1 DEF Undisturbed
<1>3. ~HandlerStep
  BY DEF HandlerStep, Interrupt, Pressed, AfterMultimedia, Released, Return, Echo, Await
<1>4. ~Sti
  BY DEF Sti
<1>5. pc = "init"
  <2>1. CASE InitStep
    BY <2>1 DEF InitStep, WaitWrite, WaitRead, OutCommand, OutData, Flush, Read, Change,
                Port, IfPort1, Sti, Running
  <2>2. CASE Deliver \/ (\E k \in env.keys : Key(k)) \/ UNCHANGED vars
    BY <2>2 DEF Deliver, Key, vars
  <2> QED BY <1>3, <2>1, <2>2 DEF Next
<1>6. ~\E k \in env.keys : Key(k)
  BY <1>2, <1>5 DEF Key, Undisturbed
<1> QED BY <1>2, <1>3, <1>4, <1>5, <1>6 DEF Next

\* Commands leave the device alone, and only those that ask fill the buffer.
LEMMA CommandsQuiet ==
    ASSUME IInv, OutCommand, Quiet
    PROVE  Quiet'
<1> USE DEF controller, device, driver, modifiers
<1>1. pc = "init" /\ at \in 1..61
  BY AtOperation DEF OutCommand, IInv
<1> DEFINE c == Program[at].arg
<1>2. \/ at \in {2, 4, 12, 41, 44, 47} /\ c \in {"disable_keyboard", "disable_mouse",
                "write_config", "enable_keyboard", "pulse"}
      \/ at \in {7, 15, 19, 23, 28, 32, 37}
  <2>1. Program[at].op = "command"
    BY AtOperation DEF OutCommand, IInv
  <2>2. \/ at = 2 /\ c = "disable_keyboard"
        \/ at = 4 /\ c = "disable_mouse"
        \/ at \in {7, 23, 32, 37} /\ c = "read_config"
        \/ at \in {12, 44} /\ c = "write_config"
        \/ at = 15 /\ c = "self_test"
        \/ at = 19 /\ c = "test_1"
        \/ at = 28 /\ c = "test_2"
        \/ at = 41 /\ c = "enable_keyboard"
        \/ at = 47 /\ c = "pulse"
    BY <1>1, <2>1, Positions
  <2> HIDE DEF c
  <2> QED BY <2>2
<1>3. Command(c)
  BY DEF OutCommand, Arg
<1>4. at' = at + 1 /\ tx' = tx
  BY <1>3 DEF OutCommand, Advance, Command
<1>5. at \in {2, 4, 12, 41, 44, 47} => Full' = Full
  BY <1>2, <1>3 DEF Command, Full
<1> HIDE DEF c
<1>6. at \in {7, 15, 19, 23, 28, 32, 37} => at' \in Answering
  BY <1>4 DEF Answering
<1>7. at' \in 1..50 /\ at \in 1..50 /\ (at \in {2, 4, 12, 41, 44, 47} => at \notin Answering)
  BY <1>2, <1>4 DEF Answering
<1> QED BY <1>2, <1>4, <1>5, <1>6, <1>7 DEF Quiet

\* Data for the device turns its clock on.
LEMMA DataQuiet ==
    ASSUME IInv, OutData, Quiet
    PROVE  Quiet'
<1> USE DEF controller, device, driver, modifiers
<1>1. TypeInv /\ Starting /\ pc = "init" /\ at \in 1..61
  BY AtOperation DEF OutData, IInv
<1> DEFINE c == Program[at].arg
<1>2. \/ at \in {13, 45} /\ c = "config"
      \/ at = 50 /\ c = "disable_scanning"
      \/ at = 54 /\ c = "identify"
      \/ at = 61 /\ c = "enable_scanning"
  <2>1. Program[at].op = "data"
    BY <1>1, AtOperation DEF OutData
  <2> QED BY <1>1, <2>1, Positions
<1>3. Data(c)
  BY DEF OutData, Arg
<1>4. at' = at + 1 /\ Full' = Full
  BY <1>3 DEF OutData, Advance, Data, Full
<1> HIDE DEF c
<1>5. /\ at \in {13, 45} => tx' = tx
      /\ at \in {50, 54, 61} => config' = config \ {Clock1Off}
  <2>1. writing <=> at \in {13, 45}
    BY <1>1 DEF Starting, ConfigSound
  <2>2. \/ at \in {13, 45} /\ UNCHANGED <<tx, scanning>>
        \/ at \in {50, 54, 61} /\ config' = config \ {Clock1Off}
    BY <1>2, <1>3, <2>1 DEF Data
  <2> QED BY <2>2
<1>6. CASE at \in {13, 45}
  <2>1. at' \in {14, 46} /\ at \notin Answering /\ at \in 1..50
    BY <1>4, <1>6 DEF Answering
  <2> QED BY <1>4, <1>5, <1>6, <2>1 DEF Quiet
<1>7. CASE at \in {50, 54, 61}
  <2>1. at' \in {51, 55, 62}
    BY <1>4, <1>7
  <2> QED BY <1>5, <1>7, <2>1 DEF Quiet
<1> QED BY <1>2, <1>6, <1>7

\* A byte is read, so none is left; after the first byte of an answer there is at most
\* one to come.
LEMMA ReadQuiet ==
    ASSUME IInv, Read, Quiet, Undisturbed, pc' = "init", Len(identity) <= 2
    PROVE  Quiet'
<1> USE DEF controller, device, driver, modifiers
<1>1. TypeInv /\ pc = "init" /\ at \in 1..61 /\ DeviceSound
  BY AtOperation DEF Read, IInv, Starting
<1> DEFINE c == Program[at].arg
<1>2. \/ at \in {9, 25, 34, 39} /\ c = "config"
      \/ at = 17 /\ c = "self_test"
      \/ at \in {21, 30} /\ c = "test"
      \/ at \in {52, 56} /\ c = "ack"
      \/ at = 58 /\ c = "first"
      \/ at = 59 /\ c = "second"
  <2>1. Program[at].op = "read"
    BY <1>1, AtOperation DEF Read
  <2> QED BY <1>1, <2>1, ReadsStand
<1>3. Skipped = 6
  BY ReadConfigOps DEF Skipped, Four
<1>4. \/ at' = at + 1
      \/ at \in {21, 30} /\ at' = at + 6
  <2>1. CASE c = "test"
    BY <1>1, <1>2, <1>3, <2>1 DEF Read, Arg, Panic, Advance
  <2>2. CASE c \in {"config", "first"}
    BY <1>1, <2>2 DEF Read, Arg, Panic, Advance
  <2>3. CASE c = "self_test"
    BY <1>1, <2>3 DEF Read, Arg, Panic, Advance
  <2>4. CASE c = "ack"
    BY <1>1, <2>4 DEF Read, Arg, Panic, Advance
  <2>5. CASE c = "second"
    BY <1>1, <2>5 DEF Read, Arg, Panic, Advance
  <2> QED BY <1>2, <2>1, <2>2, <2>3, <2>4, <2>5
<1>5. ~Full' /\ tx' = tx /\ config' = config
  BY DEF Read, Full
<1> HIDE DEF c
<1>6. CASE at \in {9, 17, 21, 25, 30, 34, 39}
  <2>1. at' \in {10, 18, 22, 26, 27, 31, 35, 36, 40}
    BY <1>4, <1>6
  <2>2. at' \in 1..50 /\ at \in 1..50
    BY <1>6, <2>1
  <2> QED BY <1>5, <2>2 DEF Quiet
<1>7. CASE at \in {52, 56}
  <2>1. at' \in {53, 57} /\ at \in 51..61
    BY <1>4, <1>7
  <2> QED BY <1>5, <2>1 DEF Quiet
<1>8. CASE at = 58
  <2>1. tx = Tail(identity) /\ identity \in Seq(Byte) /\ identity # <<>>
    BY <1>1, <1>8, AnswersTyped DEF DeviceSound
  <2>2. Len(tx) = Len(identity) - 1 /\ Len(identity) \in Nat
    BY <2>1, HeadTailProperties, LenProperties
  <2>3. at' = 59 /\ Len(tx') <= 1
    BY <1>4, <1>5, <1>8, <2>2
  <2> QED BY <1>5, <1>8, <2>3 DEF Quiet
<1>9. CASE at = 59
  <2>1. ~CanDeliver
    BY DEF Read, Running, Settled, Undisturbed
  <2>2. tx = <<>>
    BY <1>9, <2>1 DEF CanDeliver, Quiet
  <2>3. at' = 60
    BY <1>4, <1>9
  <2> QED BY <1>5, <1>9, <2>2, <2>3 DEF Quiet
<1> QED BY <1>2, <1>6, <1>7, <1>8, <1>9

\* The operations other than commands, data and reads stand in few places.
LEMMA PlacesOfOthers ==
    ASSUME IInv
    PROVE  /\ WaitWrite => at \in {1, 3, 6, 11, 14, 18, 22, 27, 31, 36, 40, 43, 46, 49, 53, 60}
           /\ WaitRead => at \in {8, 16, 20, 24, 29, 33, 38, 51, 55, 57}
           /\ Flush => at = 5
           /\ Change => at \in {10, 42}
           /\ Port => at \in {26, 35}
           /\ IfPort1 => at = 48
<1>1. TypeInv
  BY DEF IInv
<1>2. ASSUME WaitWrite PROVE at \in {1, 3, 6, 11, 14, 18, 22, 27, 31, 36, 40, 43, 46, 49, 53, 60}
  <2>1. Running("wait_write")
    BY <1>2 DEF WaitWrite
  <2>2. at \in 1..61 /\ Program[at].op = "wait_write"
    BY <1>1, <2>1, AtOperation
  <2> QED BY <2>2, Positions
<1>3. ASSUME WaitRead PROVE at \in {8, 16, 20, 24, 29, 33, 38, 51, 55, 57}
  <2>1. Running("wait_read")
    BY <1>3 DEF WaitRead
  <2>2. at \in 1..61 /\ Program[at].op = "wait_read"
    BY <1>1, <2>1, AtOperation
  <2> QED BY <2>2, Positions
<1>4. ASSUME Flush PROVE at = 5
  <2>1. Running("flush")
    BY <1>4 DEF Flush
  <2>2. at \in 1..61 /\ Program[at].op = "flush"
    BY <1>1, <2>1, AtOperation
  <2> QED BY <2>2, Positions
<1>5. ASSUME Change PROVE at \in {10, 42}
  <2>1. Running("change")
    BY <1>5 DEF Change
  <2>2. at \in 1..61 /\ Program[at].op = "change"
    BY <1>1, <2>1, AtOperation
  <2> QED BY <2>2, Positions
<1>6. ASSUME Port PROVE at \in {26, 35}
  <2>1. Running("port")
    BY <1>6 DEF Port
  <2>2. at \in 1..61 /\ Program[at].op = "port"
    BY <1>1, <2>1, AtOperation
  <2> QED BY <2>2, Positions
<1>7. ASSUME IfPort1 PROVE at = 48
  <2>1. Running("if_port_1")
    BY <1>7 DEF IfPort1
  <2>2. at \in 1..61 /\ Program[at].op = "if_port_1"
    BY <1>1, <2>1, AtOperation
  <2> QED BY <2>2, Positions
<1> QED BY <1>2, <1>3, <1>4, <1>5, <1>6, <1>7

\* The other operations leave the device and the configuration alone.
LEMMA OthersQuiet ==
    ASSUME IInv, Quiet, WaitWrite \/ WaitRead \/ Flush \/ Change \/ Port \/ IfPort1
    PROVE  Quiet'
<1> USE DEF controller, device, driver, modifiers
<1>1. pc = "init" /\ at \in 1..61 /\ tx' = tx /\ config' = config
  BY AtOperation DEF WaitWrite, WaitRead, Flush, Change, Port, IfPort1, IInv
<1>2. CASE WaitWrite
  <2>1. at \in {1, 3, 6, 11, 14, 18, 22, 27, 31, 36, 40, 43, 46, 49, 53, 60}
    BY <1>2, PlacesOfOthers
  <2>2. at' = at + 1 /\ ~Full'
    BY <1>2 DEF WaitWrite, Advance, Full
  <2>3. /\ at' # 59 /\ (at' \in 1..50 => at \in 1..50) /\ (at' \in 51..61 => at \in 51..61)
        /\ (at' \in {60, 61} => at = 60)
    BY <2>1, <2>2
  <2> QED BY <1>1, <2>2, <2>3 DEF Quiet
<1>3. CASE WaitRead
  <2>1. at \in {8, 16, 20, 24, 29, 33, 38, 51, 55, 57}
    BY <1>3, PlacesOfOthers
  <2>2. at' = at + 1
    BY <1>3 DEF WaitRead, Advance
  <2>3. /\ at' \notin {59, 60, 61} /\ (at' \in 1..50 => at \in 1..50 /\ at' \in Answering)
        /\ (at' \in 51..61 => at \in 51..61)
    BY <2>1, <2>2 DEF Answering
  <2> QED BY <1>1, <2>3 DEF Quiet
<1>4. CASE Flush \/ Change \/ Port
  <2>1. \/ at = 5 /\ at' \in {5, 6} /\ ~Full'
        \/ at \in {10, 26, 35, 42} /\ at' = at + 1 /\ Full' = Full
    <3>1. CASE Flush
      <4>1. at = 5
        BY <3>1, PlacesOfOthers
      <4> QED BY <3>1, <4>1 DEF Flush, Advance, Full
    <3>2. CASE Change
      <4>1. at \in {10, 42}
        BY <3>2, PlacesOfOthers
      <4> QED BY <3>2, <4>1 DEF Change, Advance, Full
    <3>3. CASE Port
      <4>1. at \in {26, 35}
        BY <3>3, PlacesOfOthers
      <4> QED BY <3>3, <4>1 DEF Port, Advance, Full
    <3> QED BY <1>4, <3>1, <3>2, <3>3
  <2>2. at \in 1..50 /\ at' \in 1..50 /\ at \notin Answering
    BY <2>1 DEF Answering
  <2> QED BY <1>1, <2>1, <2>2 DEF Quiet
<1>5. CASE IfPort1
  <2>1. at = 48 /\ at' \in {49, 62} /\ Full' = Full
    <3>1. at = 48
      BY <1>5, PlacesOfOthers
    <3> QED BY <1>5, <3>1, ProgramOps DEF IfPort1, Full
  <2>2. at \in 1..50 /\ at \notin Answering
    BY <2>1 DEF Answering
  <2> QED BY <1>1, <2>1, <2>2 DEF Quiet
<1> QED BY <1>2, <1>3, <1>4, <1>5

\* The controller takes the device's answers only.
LEMMA DeliverQuiet ==
    ASSUME IInv, Quiet, Deliver, pc = "init"
    PROVE  Quiet'
<1>1. /\ ~Full /\ tx # <<>> /\ tx' = Tail(tx) /\ at' = at /\ config' = config
      /\ tx \in Seq(Byte)
  BY DEF Deliver, CanDeliver, IInv, TypeInv, driver
<1>2. at \notin 1..50 /\ at \notin {60, 61}
  BY <1>1 DEF Quiet
<1>3. at = 59 => tx' = <<>> /\ Len(tx') <= 1
  <2>1. Len(tx) \in Nat /\ Len(tx) # 0 /\ Len(Tail(tx)) = Len(tx) - 1 /\ Tail(tx) \in Seq(Byte)
    BY <1>1, HeadTailProperties, LenProperties, EmptySeq
  <2>2. at = 59 => Len(tx) = 1
    BY <2>1 DEF Quiet
  <2>3. at = 59 => Len(tx') = 0
    BY <1>1, <2>1, <2>2
  <2> QED BY <1>1, <2>1, <2>3, EmptySeq
<1> QED BY <1>1, <1>2, <1>3 DEF Quiet

\* While nobody disturbs the start, all is quiet.
LEMMA QuietStep ==
    ASSUME \A i \in Identities : Len(i) <= 2, IInv, QuietInv, [Next]_vars
    PROVE  QuietInv'
<1> SUFFICES ASSUME Undisturbed', pc' = "init" PROVE Quiet'
  BY DEF QuietInv
<1>1. /\ Undisturbed /\ pc = "init" /\ Quiet
      /\ (InitStep /\ ~Sti) \/ Deliver \/ UNCHANGED vars
  BY StartingSteps DEF QuietInv
<1>2. Len(identity) <= 2
  BY DEF IInv, TypeInv
<1>3. CASE InitStep /\ ~Sti
  BY <1>1, <1>2, <1>3, CommandsQuiet, DataQuiet, ReadQuiet, OthersQuiet DEF InitStep
<1>4. CASE Deliver
  BY <1>1, <1>4, DeliverQuiet
<1>5. CASE UNCHANGED vars
  BY <1>1, <1>5 DEF vars, controller, device, driver, Quiet, Full
<1> QED BY <1>1, <1>3, <1>4, <1>5

\* It is when the machine starts.
LEMMA QuietAtFirst == Init => QuietInv
<1> SUFFICES ASSUME Init PROVE Quiet
  BY DEF QuietInv
<1>1. at = 1 /\ tx = <<>> /\ ~Full
  BY DEF Init, Full
<1> QED BY <1>1 DEF Quiet

\* If the device answers with at most the two bytes that are read, nobody disturbs the
\* start and the controller is prompt, no wait of ps2_keyboard_init is in vain: the
\* buffer is empty when it waits to write, and holds a byte when it waits to read.
THEOREM NoWaitIsInVain ==
    ASSUME \A i \in Identities : Len(i) <= 2
    PROVE  Spec => [](Undisturbed /\ pc = "init" /\ at <= Len(Program) /\ Settled =>
                         /\ Program[at].op = "wait_write" => ~Full
                         /\ Program[at].op = "wait_read" => Full)
<1>1. Init => QuietInv
  BY QuietAtFirst
<1>2. ASSUME IInv, QuietInv, Undisturbed, pc = "init", at <= Len(Program), Settled
      PROVE  /\ Program[at].op = "wait_write" => ~Full
             /\ Program[at].op = "wait_read" => Full
  <2>1. Quiet /\ at \in 1..61 /\ AnswersSound /\ DeviceSound
    BY <1>2, ProgramOps DEF QuietInv, IInv, TypeInv, Starting
  <2>2. ASSUME Program[at].op = "wait_write" PROVE ~Full
    <3>1. at \in {1, 3, 6, 11, 14, 18, 22, 27, 31, 36, 40, 43, 46, 49, 53, 60}
      BY <2>1, <2>2, Positions
    <3>2. CASE at = 53
      BY <2>1, <3>2 DEF DeviceSound
    <3>3. CASE at # 53
      <4>1. (at \in 1..50 /\ at \notin Answering) \/ at = 60
        BY <3>1, <3>3 DEF Answering
      <4> QED BY <2>1, <4>1 DEF Quiet
    <3> QED BY <3>2, <3>3
  <2>3. ASSUME Program[at].op = "wait_read" PROVE Full
    <3>1. at \in {8, 16, 20, 24, 29, 33, 38, 51, 55, 57}
      BY <2>1, <2>3, Positions
    <3>2. CASE at \in {8, 16, 20, 24, 29, 33, 38}
      BY <2>1, <3>2 DEF AnswersSound
    <3>3. CASE at \in {51, 55, 57}
      <4>1. Full \/ tx # <<>>
        <5>1. identity \in Seq(Byte) /\ identity # <<>> /\ <<ACK>> # <<>>
          BY <1>2, AnswersTyped DEF IInv
        <5>2. <<ACK>> \o identity # <<>>
          BY <5>1, AckThen
        <5> QED BY <2>1, <3>3, <5>1, <5>2 DEF DeviceSound
      <4>2. Clock1Off \notin config
        BY <2>1, <3>3 DEF Quiet
      <4>3. ~CanDeliver
        BY <1>2 DEF Settled, Undisturbed
      <4> QED BY <4>1, <4>2, <4>3 DEF CanDeliver
    <3> QED BY <3>1, <3>2, <3>3
  <2> QED BY <2>2, <2>3
<1> QED BY <1>1, <1>2, QuietStep, Begins, StepsKeep, PTL DEF Spec

\* What is left of the program, and of what the device has to say.
StartLeft == IF pc = "init" THEN 4 * (63 - at) + Len(tx) ELSE 0

\* Each operation is left for a later one, and adds three bytes at most to those the
\* device sends.
LEMMA OperationAdvances ==
    ASSUME IInv, Quiet, InitStep, pc' = "init", Len(identity) <= 2
    PROVE  at' > at /\ Len(tx') \in Nat /\ Len(tx') <= Len(tx) + 3
<1> USE DEF controller, device, driver, modifiers
<1>1. TypeInv /\ Starting /\ at \in 1..62 /\ Len(tx) \in Nat
  BY LenProperties DEF IInv, TypeInv, InitStep, WaitWrite, WaitRead, OutCommand, OutData,
                       Flush, Read, Change, Port, IfPort1, Sti, Running
<1>2. ~Sti
  BY DEF Sti
<1>3. CASE OutCommand
  <2>1. tx' = tx /\ at' = at + 1
    BY <1>3 DEF OutCommand, Command, Advance
  <2> QED BY <1>1, <2>1
<1>4. CASE WaitWrite \/ WaitRead \/ Change \/ Port
  BY <1>1, <1>4 DEF WaitWrite, WaitRead, Change, Port, Advance
<1>5. CASE IfPort1
  <2>1. at = 48 /\ Len(Program) + 1 = 62
    <3>1. at = 48
      BY <1>5, PlacesOfOthers
    <3>2. Len(Program) = 61
      BY ProgramOps
    <3> QED BY <3>1, <3>2
  <2>2. tx' = tx /\ at' \in {49, 62}
    BY <1>5, <2>1 DEF IfPort1
  <2> QED BY <1>1, <2>1, <2>2
<1>6. CASE Flush
  <2>1. at = 5
    BY <1>6, PlacesOfOthers
  <2>2. at \in 1..50 /\ at \notin Answering
    BY <2>1 DEF Answering
  <2>3. ~Full
    BY <2>2 DEF Quiet
  <2>4. tx' = tx /\ at' = at + 1
    BY <1>6, <2>3 DEF Flush, Advance
  <2> QED BY <1>1, <2>4
<1>7. CASE Read
  <2>1. Skipped = 6
    BY ReadConfigOps DEF Skipped, Four
  <2>2. at' \in {at + 1, at + 6}
    <3>1. pc = "init"
      BY <1>7 DEF Read, Running
    <3>2. \/ Advance(1)
          \/ Advance(Skipped)
      BY <1>7, <3>1 DEF Read, Panic
    <3> QED BY <2>1, <3>2 DEF Advance
  <2>3. tx' = tx
    BY <1>7 DEF Read
  <2> QED BY <1>1, <2>2, <2>3
<1>8. CASE OutData
  <2> DEFINE c == Program[at].arg
  <2>1. \/ at \in {13, 45} /\ c = "config"
        \/ at = 50 /\ c = "disable_scanning"
        \/ at = 54 /\ c = "identify"
        \/ at = 61 /\ c = "enable_scanning"
    <3>1. at \in 1..61 /\ Program[at].op = "data"
      BY <1>8, AtOperation DEF OutData, IInv
    <3> QED BY <3>1, Positions
  <2>2. Data(c) /\ at' = at + 1 /\ pc = "init"
    BY <1>8 DEF OutData, Arg, Advance, Running
  <2> HIDE DEF c
  <2>3. (writing <=> at \in {13, 45}) /\ (at = 54 => tx = <<>>)
    <3>1. ConfigSound /\ DeviceSound
      BY <1>1, <2>2 DEF Starting
    <3>2. at \in 1..61
      BY <2>1
    <3>3. writing <=> at \in {13, 45}
      BY <3>1, <3>2 DEF ConfigSound
    <3>4. at = 54 => tx = <<>>
      BY <3>1 DEF DeviceSound
    <3> QED BY <3>3, <3>4
  <2>4. \/ tx' = tx
        \/ tx' = <<ACK>>
        \/ at = 54 /\ tx' = tx \o <<ACK>> \o identity
        \/ tx' = tx \o <<ACK>>
    BY <2>1, <2>2, <2>3 DEF Data
  <2>5. PICK a : a = <<ACK>> /\ a \in Seq(Byte) /\ Len(a) = 1
    BY JustAck
  <2>6. tx \in Seq(Byte) /\ identity \in Seq(Byte) /\ Len(identity) \in Nat
    BY <1>1, AnswersTyped, LenProperties DEF TypeInv
  <2>7. tx \o a \in Seq(Byte) /\ Len(tx \o a) = Len(tx) + 1
    BY <2>5, <2>6, ConcatProperties
  <2>8. Len((tx \o a) \o identity) = Len(tx) + 1 + Len(identity)
    BY <2>6, <2>7, ConcatProperties
  <2>9. Len(tx') \in {Len(tx), 1, Len(tx) + 1, Len(tx) + 1 + Len(identity)}
    BY <2>4, <2>5, <2>7, <2>8
  <2>10. \A m, n \in Nat : n <= 2 =>
            \A k \in {m, 1, m + 1, m + 1 + n} : k \in Nat /\ k <= m + 3
    OBVIOUS
  <2>11. Len(tx') \in Nat /\ Len(tx') <= Len(tx) + 3
    BY <1>1, <2>6, <2>9, <2>10
  <2> QED BY <1>1, <2>2, <2>11
<1> QED BY <1>2, <1>3, <1>4, <1>5, <1>6, <1>7, <1>8 DEF InitStep

\* Under the same conditions ps2_keyboard_init, which does not wait in vain, cannot go on
\* for ever either: each operation, and each byte the controller takes from the device,
\* leaves less to do.
THEOREM StartAdvances ==
    ASSUME \A i \in Identities : Len(i) <= 2
    PROVE  Spec => [][Undisturbed /\ pc = "init" =>
                        /\ InitStep \/ Deliver
                        /\ StartLeft' \in Nat /\ StartLeft' < StartLeft]_vars
<1>1. ASSUME IInv, IInv', QuietInv, Next, Undisturbed, pc = "init"
      PROVE  /\ InitStep \/ Deliver
             /\ StartLeft' \in Nat /\ StartLeft' < StartLeft
  <2>1. Quiet /\ Len(identity) <= 2
    BY <1>1 DEF QuietInv, IInv, TypeInv
  <2>2. at \in 1..62 /\ at' \in 1..62 /\ Len(tx) \in Nat /\ Len(tx') \in Nat
    BY <1>1, LenProperties DEF IInv, TypeInv
  <2>3. InitStep \/ Deliver
    <3>1. ~HandlerStep
      BY <1>1 DEF HandlerStep, Interrupt, Pressed, AfterMultimedia, Released, Return, Reads
    <3>2. ~\E k \in env.keys : Key(k)
      BY <1>1 DEF Key, Undisturbed
    <3> QED BY <1>1, <3>1, <3>2 DEF Next
  <2>4. StartLeft = 4 * (63 - at) + Len(tx)
    BY <1>1 DEF StartLeft
  <2>5. CASE pc' # "init"
    <3>1. StartLeft' = 0
      BY <2>5 DEF StartLeft
    <3> QED BY <2>2, <2>3, <2>4, <3>1
  <2>6. CASE pc' = "init"
    <3>1. StartLeft' = 4 * (63 - at') + Len(tx')
      BY <2>6 DEF StartLeft
    <3>2. CASE InitStep
      <4>1. at' > at /\ Len(tx') <= Len(tx) + 3
        BY <1>1, <2>1, <2>6, <3>2, OperationAdvances
      <4> QED BY <2>2, <2>3, <2>4, <3>1, <4>1
    <3>3. CASE Deliver
      <4>1. at' = at /\ tx # <<>> /\ tx' = Tail(tx) /\ tx \in Seq(Byte)
        BY <1>1, <3>3 DEF Deliver, CanDeliver, driver, IInv, TypeInv
      <4>2. Len(tx') = Len(tx) - 1
        BY <4>1, HeadTailProperties
      <4> QED BY <2>2, <2>3, <2>4, <3>1, <4>1, <4>2
    <3> QED BY <2>3, <3>2, <3>3
  <2> QED BY <2>5, <2>6
<1>2. Init => QuietInv
  BY QuietAtFirst
<1> QED BY <1>1, <1>2, QuietStep, Begins, StepsKeep, PTL DEF Spec

----------------------------------------------------------------------------
(* That the handler does not wait in vain.                                 *)

\* Once the driver has started, the keyboard was not found and stays off, or its clock
\* is on.
ClockSound == at = 62 => Dead \/ Clock1Off \notin config

\* Only the operations before it lead to the end of the program.
LEMMA EndReached ==
    ASSUME IInv, InitStep, at' = 62
    PROVE  \/ IfPort1 /\ at = 48
           \/ OutData /\ at = 61
           \/ Sti
<1>1. TypeInv
  BY DEF IInv
<1>2. ASSUME NEW o, Running(o) PROVE at \in 1..61 /\ Program[at].op = o
  BY <1>1, <1>2, AtOperation
<1>3. CASE WaitWrite \/ WaitRead \/ Flush \/ Change \/ Port
  <2>1. at \in 1..60
    BY <1>3, PlacesOfOthers
  <2>2. at' \in {at, at + 1}
    <3>1. Flush => at' \in {at, at + 1}
      <4>1. at + 0 = at
        <5>1. at \in 1..62
          BY <1>1 DEF TypeInv
        <5> QED BY <5>1
      <4>2. Flush => at' = at + (IF Full THEN 0 ELSE 1)
        BY DEF Flush, Advance
      <4> QED BY <1>1, <4>1, <4>2
    <3>2. WaitWrite \/ WaitRead \/ Change \/ Port => at' = at + 1
      BY DEF WaitWrite, WaitRead, Change, Port, Advance
    <3> QED BY <1>3, <3>1, <3>2
  <2> QED BY <2>1, <2>2
<1>4. CASE OutCommand
  <2>1. at \in 1..61 /\ Program[at].op = "command"
    BY <1>2, <1>4 DEF OutCommand
  <2>2. at <= 47
    BY <2>1, Positions
  <2>3. at' = at + 1
    BY <1>4 DEF OutCommand, Advance
  <2> QED BY <2>1, <2>2, <2>3
<1>5. CASE OutData
  <2>1. at \in 1..61 /\ at' = at + 1
    BY <1>2, <1>5 DEF OutData, Advance
  <2> QED BY <1>5, <2>1
<1>6. CASE IfPort1
  BY <1>6, PlacesOfOthers
<1>7. CASE Read
  <2>1. at \in 1..61 /\ Program[at].op = "read"
    BY <1>2, <1>7 DEF Read
  <2>2. \/ at' \in {at, at + 1}
        \/ Arg = "test" /\ at' = at + Skipped
    <3>1. \/ Advance(0) \/ Advance(1)
          \/ Arg = "test" /\ Advance(Skipped)
      BY <1>7 DEF Read
    <3> QED BY <2>1, <3>1 DEF Advance
  <2>3. Skipped = 6
    BY ReadConfigOps DEF Skipped, Four
  <2>4. at <= 59 /\ (Arg = "test" => at <= 30)
    BY <2>1, ReadsStand DEF Arg
  <2> QED BY <2>1, <2>2, <2>3, <2>4
<1> QED BY <1>3, <1>4, <1>5, <1>6, <1>7 DEF InitStep

\* The driver's last step turns interrupts on.
LEMMA LastStep ==
    ASSUME at = 62, InitStep
    PROVE  Sti
<1>1. ~\E o \in {"wait_write", "wait_read", "command", "data", "flush", "read",
                 "change", "port", "if_port_1"} : Running(o)
  BY ProgramOps DEF Running
<1> QED BY <1>1 DEF InitStep, WaitWrite, WaitRead, OutCommand, OutData, Flush, Read, Change,
                    Port, IfPort1

\* A keyboard that was not found is never heard of again.
LEMMA DeadStays ==
    ASSUME IInv, at = 62, Dead, [Next]_vars
    PROVE  Dead'
<1> USE DEF controller, device, driver, modifiers
<1>1. CASE InitStep
  <2>1. Sti
    BY <1>1, LastStep
  <2> QED BY <2>1 DEF Sti, Dead, Unmodified, Full
<1>2. CASE HandlerStep
  <2>1. Interrupt \/ Return
    BY <1>2 DEF HandlerStep, Pressed, AfterMultimedia, Released, Reads, Dead
  <2> QED BY <2>1 DEF Interrupt, Return, Dead, Unmodified, Full
<1>3. CASE Deliver
  BY <1>3 DEF Deliver, CanDeliver, Dead
<1>4. CASE (\E k \in env.keys : Key(k)) \/ UNCHANGED vars
  BY <1>4 DEF Key, vars, Dead, Unmodified, Full
<1> QED BY <1>1, <1>2, <1>3, <1>4 DEF Next

\* Nothing turns the clock off after the start.
LEMMA ClockStays ==
    ASSUME IInv, IInv', ClockSound, [Next]_vars
    PROVE  ClockSound'
<1> USE DEF controller, device, driver, modifiers
<1> SUFFICES ASSUME at' = 62 PROVE Dead' \/ Clock1Off \notin config'
  BY DEF ClockSound
<1>1. ASSUME at # 62 PROVE Dead' \/ Clock1Off \notin config'
  <2>1. InitStep
    BY <1>1 DEF Next, HandlerStep, Interrupt, Pressed, AfterMultimedia, Released, Return,
                Reads, Deliver, Key, vars
  <2>2. ~Sti
    BY <1>1, ProgramOps DEF Sti
  <2>3. CASE IfPort1 /\ at = 48
    <3>1. UNCHANGED <<config, out, shift, alt, control, pc>> /\ pc = "init"
      BY <2>3 DEF IfPort1, Running
    <3> QED BY <2>3, <3>1 DEF IInv, Starting, ConfigSound, AnswersSound, Unmodified, Dead, Full
  <2>4. CASE OutData /\ at = 61
    <3>1. pc = "init" /\ ~writing
      BY <2>4 DEF OutData, Running, IInv, Starting, ConfigSound
    <3>2. config' = config \ {Clock1Off}
      BY <2>4, <3>1 DEF OutData, Data
    <3> QED BY <3>2
  <2> QED BY <2>1, <2>2, <2>3, <2>4, EndReached
<1>2. ASSUME at = 62 PROVE Dead' \/ Clock1Off \notin config'
  <2>1. config' = config
    <3>1. InitStep => Sti
      BY <1>2, LastStep
    <3> QED BY <3>1 DEF Next, Sti, HandlerStep, Interrupt, Pressed, AfterMultimedia, Released,
                        Return, Reads, Deliver, Key, vars
  <2> QED BY <1>2, <2>1, DeadStays DEF ClockSound
<1> QED BY <1>1, <1>2

\* A handler that has read the first part of a code and waits for the rest does not wait
\* in vain: the rest is in the buffer, or the controller can take it from the keyboard.
THEOREM PrefixesAreFollowed == Spec => [](pc \in Prefixes => Full \/ CanDeliver)
<1>1. Init => ClockSound
  BY DEF Init, ClockSound
<1>2. ASSUME IInv, ClockSound, pc \in Prefixes PROVE Full \/ CanDeliver
  <2>1. at = 62 /\ pc \notin {"init", "hlt", "code"} /\ tx \in Seq(Byte)
    BY <1>2 DEF IInv, TypeInv, Prefixes
  <2>2. ~Dead
    BY <2>1 DEF Dead
  <2>3. Alive /\ Clock1Off \notin config
    BY <1>2, <2>1, <2>2 DEF IInv, Started, ClockSound
  <2>4. ASSUME ~Full, tx = <<>> PROVE FALSE
    <3>1. PICK h \in States : Leads(Upcoming, tx, h) /\ Justified(h)
      BY <2>3 DEF Alive, Decodes
    <3>2. Upcoming = Now /\ Len(tx) = 0
      BY <2>4 DEF Upcoming
    <3>3. PICK r : IsRun(r, Now, tx, h)
      BY <3>1, <3>2 DEF Leads
    <3>4. h = Now
      BY <3>2, <3>3 DEF IsRun
    <3>5. Now.where = pc
      <4>1. PICK p : p = pc
        OBVIOUS
      <4>2. shift \in BOOLEAN /\ control \in BOOLEAN /\ alt \in BOOLEAN
        BY <1>2 DEF IInv, TypeInv
      <4> QED BY <1>2, <4>1, <4>2, StatesAre DEF Now
    <3>6. pc = "code"
      BY <3>1, <3>4, <3>5 DEF Justified
    <3> QED BY <2>1, <3>6
  <2> QED BY <2>3, <2>4 DEF CanDeliver
<1> QED BY <1>1, <1>2, ClockStays, Begins, StepsKeep, PTL DEF Spec

=============================================================================
