----------------------------- MODULE MCClientApi -----------------------------
(* Instances of ClientApi for TLC: each setup is one of the situations that  *)
(* are hard, with as much of everything as it takes to get there.            *)
EXTENDS ClientApi

CONSTANTS h1, h2, p1, p2

Nobody == [clients |-> <<h1>>, weak |-> {}, polling |-> {}, joining |-> {}, hooking |-> {},
           leaving |-> {}, quitting |-> {}, props |-> {p1},
           events |-> 0, requests |-> 0, changes |-> 0, resizes |-> 0, observes |-> 0]

MCSetups == {
  \* The queue overflows, with replies to come.
  [Nobody EXCEPT !.events = 4, !.requests = 2],
  [Nobody EXCEPT !.events = 4, !.requests = 1, !.polling = {h1}],
  \* Properties are observed and change; the handle goes away meanwhile.
  [Nobody EXCEPT !.changes = 2, !.observes = 2, !.events = 1],
  [Nobody EXCEPT !.changes = 1, !.observes = 2, !.polling = {h1}, !.props = {p1, p2}],
  [Nobody EXCEPT !.resizes = 2, !.observes = 1, !.leaving = {h1}],
  [Nobody EXCEPT !.changes = 1, !.resizes = 1, !.observes = 2],
  \* The same with a hook.
  [Nobody EXCEPT !.resizes = 2, !.observes = 1, !.hooking = {h1}],
  [Nobody EXCEPT !.changes = 1, !.resizes = 1, !.observes = 1, !.hooking = {h1}, !.leaving = {h1}],
  \* A hook waits for a property that is unobserved.
  [Nobody EXCEPT !.observes = 2, !.events = 1, !.hooking = {h1}, !.polling = {h1}],
  \* Another thread waits for the replies.
  [Nobody EXCEPT !.requests = 2, !.joining = {h1}],
  \* Two handles: the last strong one ends the player, or one of two goes.
  [Nobody EXCEPT !.clients = <<h1, h2>>, !.weak = {h2}, !.requests = 2, !.leaving = {h1}],
  [Nobody EXCEPT !.clients = <<h1, h2>>, !.leaving = {h2}, !.observes = 2, !.changes = 1],
  \* One handle or both quit or terminate it.
  [Nobody EXCEPT !.clients = <<h1, h2>>, !.requests = 1, !.quitting = {h1}, !.polling = {h2}],
  [Nobody EXCEPT !.clients = <<h1, h2>>, !.quitting = {h1, h2}, !.polling = {h2}] }
==============================================================================
