------------------------------ MODULE MCRegistry ------------------------------
(* Chains for the model checker.                                              *)
EXTENDS Registry

CONSTANTS fa, late, proxy, other, ann, bob

Call(t, a)      == [ticket |-> t, receiver |-> a]
Credit(c, p, a) == [call |-> c, owner |-> p, receiver |-> a]
Burn(t, a)      == [ticket |-> t, sender |-> a]

Of(content, calls, credits, withdrawals, runtime) == [
  contents    |-> [t \in Tickets |-> IF t = fa THEN "listed" ELSE content],
  kinds       |-> [a \in Addresses |-> IF a = ann /\ runtime THEN "alias" ELSE "native"],
  runtime     |-> runtime,
  calls       |-> calls,
  credits     |-> credits,
  withdrawals |-> withdrawals]

Chain(content, runtime) ==
  Of(content, <<Call(late, ann), Call(fa, bob), Call(late, bob)>>,
     <<Credit(1, proxy, ann), Credit(2, other, bob), Credit(3, other, bob)>>,
     <<Burn(late, bob), Burn(fa, ann)>>, runtime)

\* Two proxies for the ticket that is not listed, one of them also the proxy of the
\* listed one; a credit whose receiver owns the ticket; tickets that stop the process.
MCScripts == {
  Chain("described", TRUE), Chain("described", FALSE), Chain("opaque", TRUE),
  Of("described", <<Call(late, bob), Call(late, ann)>>,
     <<Credit(1, proxy, bob), Credit(2, other, ann)>>, <<Burn(late, ann)>>, TRUE),
  Of("bare", <<Call(late, bob), Call(fa, ann)>>,
     <<Credit(1, bob, bob), Credit(2, proxy, ann)>>, <<Burn(fa, bob), Burn(late, ann)>>, TRUE),
  Of("untyped", <<Call(fa, bob), Call(late, ann)>>,
     <<Credit(1, other, bob), Credit(2, proxy, ann)>>, <<Burn(fa, bob), Burn(late, ann)>>, TRUE),
  Of("garbled", <<Call(fa, bob), Call(late, ann)>>,
     <<Credit(2, proxy, ann)>>, <<Burn(late, ann), Burn(fa, bob)>>, TRUE),
  Of("opaque", <<Call(late, bob)>>, <<Credit(1, bob, bob)>>, <<Burn(late, bob)>>, TRUE)}

=============================================================================
