-------------------------- MODULE MachineIntegers --------------------------
(***************************************************************************)
(* Integers of a fixed width, [bits, signed], and what C++ computes with   *)
(* them: conversion, which wraps around, quotients, shifts and the         *)
(* operations on bits.                                                     *)
(***************************************************************************)
EXTENDS Integers

TwoTo(n) ==
  LET power[k \in 0..n] == IF k = 0 THEN 1 ELSE 2 * power[k - 1]
  IN power[n]

Lowest(type) == IF type.signed THEN -TwoTo(type.bits - 1) ELSE 0
Highest(type) == IF type.signed THEN TwoTo(type.bits - 1) - 1 ELSE TwoTo(type.bits) - 1
Wrapped(type, n) == ((n - Lowest(type)) % TwoTo(type.bits)) + Lowest(type)

(* Division cuts off what is behind the point.                             *)
Quotient(a, b) ==
  LET Abs(n) == IF n < 0 THEN -n ELSE n
      q == Abs(a) \div Abs(b)
  IN IF (a < 0) = (b < 0) THEN q ELSE -q

(* Of the bits of two numbers of sixteen, the last of which is the sign.   *)
Bit(n, i) == (n \div TwoTo(i)) % 2
BitOf(op, a, b) ==
  CASE op = "&" -> a * b
    [] op = "|" -> a + b - a * b
    [] op = "^" -> (a + b) % 2
OnBits(op, a, b) ==
  LET bit(i) == BitOf(op, Bit(a, i), Bit(b, i))
      from[i \in 0..15] == IF i = 15 THEN -bit(15) ELSE bit(i) + 2 * from[i + 1]
  IN from[0]
=============================================================================
