------------------------------ MODULE ErrorFlow ------------------------------
(***************************************************************************)
(* Errors on their way up.  A function checks its arguments; what fails it *)
(* gathers in a collector, a MultiError, or returns at once.  The result   *)
(* goes to its caller, with contexts put on it, into the collector of the  *)
(* caller or through it with `?`, and from the outermost function to a     *)
(* report.  A function that has gathered errors returns through them: it   *)
(* does not leave by bail!, ensure! or `?`, which would drop its collector.*)
(***************************************************************************)
EXTENDS MohuError

CONSTANTS
  Leaves,     \* the errors that are raised together; any is raised alone
  MaxRaised,  \* bound: errors raised before the report,
  MaxWraps,   \* contexts on one error,
  MaxCalls    \* and functions inside one another

ASSUME FlowAssumption ==
  /\ Leaves \subseteq Variants
  /\ MaxCalls \in Nat \ {0}

VARIABLES
  frames,     \* the collectors of the functions being run, innermost last
  returning,  \* a function has returned, and its caller has not gone on
  returned,   \* what it returned
  raised      \* all errors raised since the last report, in order, with the
              \* contexts each has been given, outermost first

errorVars == <<frames, returning, returned, raised>>

ErrorInit ==
  /\ frames = <<<<>>>>
  /\ returning = FALSE
  /\ returned = Ok
  /\ raised = <<>>

\* The bound on what is raised: any error alone, or several of Leaves.
Raisable(r) ==
  r # Ok => \/ raised = <<>>
            \/ /\ Len(raised) < MaxRaised
               /\ r[1].variant \in Leaves
               /\ \A i \in DOMAIN raised : raised[i].variant \in Leaves

\* The bound MaxNesting on what is returned.
Nests(r) == ToSet(r) \subseteq Errors

Top == Last(frames)
Working == ~returning

\* Leaves, each with the contexts above it, under one more context.
Under(l, leafs) == [i \in DOMAIN leafs |-> [leafs[i] EXCEPT !.contexts = <<l>> \o @]]

\* The leaves of an error, in order, each with the contexts above it.
Leafs[e \in Errors] ==
  IF e.variant = "Context" THEN Under(e.context, Leafs[e.source])
  ELSE IF e.variant = "Multiple"
         THEN FlattenSeq([i \in DOMAIN e.errors |-> Leafs[e.errors[i]]])
         ELSE <<[variant |-> e.variant, contexts |-> <<>>]>>

LeafsOf(errors) == FlattenSeq([i \in DOMAIN errors |-> Leafs[errors[i]]])

---------------------------------------------------------------------------
Enter ==
  /\ Working
  /\ Len(frames) < MaxCalls
  /\ frames' = Append(frames, <<>>)
  /\ UNCHANGED <<returning, returned, raised>>

\* A check, its result collected, so that the next one is made.
Check(r) ==
  /\ Working
  /\ Raisable(r)
  /\ frames' = [frames EXCEPT ![Len(frames)] = Collect(@, r)]
  /\ raised' = raised \o LeafsOf(r)
  /\ UNCHANGED <<returning, returned>>

\* A check that returns from the function: bail!, ensure!, the assert macros,
\* and the adapters of an Option that is None.
Fail(r) ==
  /\ Working
  /\ r # Ok
  /\ Raisable(r)
  /\ Top = <<>>
  /\ frames' = Front(frames)
  /\ returning' = TRUE
  /\ returned' = r
  /\ raised' = raised \o LeafsOf(r)

\* The end of a function.
Leave ==
  /\ Working
  /\ Nests(IntoResult(Top))
  /\ frames' = Front(frames)
  /\ returning' = TRUE
  /\ returned' = IntoResult(Top)
  /\ UNCHANGED raised

\* ... or the collector itself is handed to the caller, who merges it.
HandOver ==
  /\ Working
  /\ Len(frames) > 1
  /\ frames' = [Front(frames) EXCEPT ![Len(frames) - 1] = ExtendFrom(@, Top)]
  /\ UNCHANGED <<returning, returned, raised>>

Wrap(l) ==
  /\ returning
  /\ \A x \in ToSet(LeafsOf(returned)) : Len(x.contexts) < MaxWraps
  /\ Nests(WithContext(returned, l))
  /\ returned' = WithContext(returned, l)
  /\ LET old == Len(raised) - Len(LeafsOf(returned))
     IN raised' = SubSeq(raised, 1, old) \o Under(l, SubSeq(raised, old + 1, Len(raised)))
  /\ UNCHANGED <<frames, returning>>

\* The caller collects the result and goes on.
Gather ==
  /\ returning
  /\ frames # <<>>
  /\ frames' = [frames EXCEPT ![Len(frames)] = Collect(@, returned)]
  /\ returning' = FALSE
  /\ returned' = Ok
  /\ UNCHANGED raised

\* The caller takes a Multiple apart and adds its errors to its own.
Unpack ==
  /\ returning
  /\ frames # <<>>
  /\ returned # Ok
  /\ returned[1].variant = "Multiple"
  /\ frames' = [frames EXCEPT ![Len(frames)] = ExtendFrom(@, returned[1].errors)]
  /\ returning' = FALSE
  /\ returned' = Ok
  /\ UNCHANGED raised

\* `?`: the caller returns the same error.
Propagate ==
  /\ returning
  /\ frames # <<>>
  /\ returned # Ok
  /\ Top = <<>>
  /\ frames' = Front(frames)
  /\ UNCHANGED <<returning, returned, raised>>

\* The outermost result is reported, or raised in Python, and dropped.
Report ==
  /\ returning
  /\ frames = <<>>
  /\ frames' = <<<<>>>>
  /\ returning' = FALSE
  /\ returned' = Ok
  /\ raised' = <<>>

\* What a check finds of an argument: shapes, axes and indices around the ends
\* of an axis of two; any other error; or nothing.
Findings ==
  {AssertShapeEq(s, <<2>>) : s \in {<<2>>, <<3>>}}
    \cup {AssertAxisValid(a, 2) : a \in -3..2}
    \cup {AssertInBounds(i, 2) : i \in -3..2}
    \cup {Err(e) : e \in {Alloc, Bug, Domain, MatmulShape}}
    \cup {Checked(TRUE, v) : v \in Variants}

ErrorNext ==
  \/ Enter
  \/ \E r \in Findings : Check(r)
  \/ \E r \in Findings \cup {NoneWithContext} \cup {NoneOr(Leaf(v)) : v \in Leaves} : Fail(r)
  \/ Leave \/ HandOver
  \/ \E l \in Labels : Wrap(l)
  \/ Gather \/ Unpack \/ Propagate \/ Report

ErrorSpec == ErrorInit /\ [][ErrorNext]_errorVars

---------------------------------------------------------------------------
InFlight == ToSet(FlattenSeq(frames) \o returned)

ErrorTypeOK ==
  /\ returning \in BOOLEAN
  /\ (frames = <<>>) => returning
  /\ Working => returned = Ok
  /\ Len(returned) <= 1
  /\ Len(frames) <= MaxCalls
  /\ \A i \in DOMAIN raised : raised[i].variant \in Variants

\* Collectors, merges, contexts and early returns lose no error, double none,
\* keep their order, and leave on each error the contexts it was given, the
\* last one outermost.
EveryErrorArrives ==
  LeafsOf(FlattenSeq(frames) \o returned) = raised

\* The kind of an error is the worst kind of anything inside it: no context
\* and no collector, however nested, makes a failure look milder or worse.
KindIsWorst ==
  \A e \in InFlight :
    Kind[e] = Max({KindFrom(x.variant) : x \in ToSet(Leafs[e])})

\* Those who look at an error in different ways come to verdicts that fit: what
\* may be retried is recoverable, a usage error is one by its kind, a fatal one is
\* internal, the compact and the JSON report name the same code and the JSON
\* report the contexts that all leaves of the error have in common, outermost
\* first.  Of an error that is no Multiple under its contexts, it names the kind,
\* and its one leaf with all its contexts; Python raises an IndexError, MemoryError
\* or OSError only for an error of this domain or kind, and of a usage error makes
\* a RuntimeError if, and only if, it has a context.
VerdictsAgree ==
  \A e \in InFlight :
    LET root == Root[e]
        py == PyErr(e)
        contexts == Json(e).chain
    IN /\ IsTransient(e) => IsRecoverable(Kind[e])
       /\ IsUsageError(e) => Kind[e] = Usage
       /\ Severity(e) = "fatal" => Kind[e] = InternalKind
       /\ Json(e).code = NumberOf(Compact(e).code)
       /\ Json(e).depth + 1 = Len(Chain[e]) /\ Last(Chain[e]) = root
       /\ \A x \in ToSet(Leafs[e]) : IsPrefix(contexts, x.contexts)
       /\ root.variant # "Multiple" =>
            /\ Leafs[e] = <<[variant |-> root.variant, contexts |-> contexts]>>
            /\ Json(e).kind = Kind[e]
            /\ py = "IndexError" => Full(e).domain = 3
            /\ py = "MemoryError" => Full(e).domain = 4
            /\ py = "OSError" => IsRecoverable(Kind[e])
            /\ Kind[e] = Usage => /\ py \notin {"OSError", "NotImplementedError"}
                                 /\ (py = "RuntimeError") = (contexts # <<>>)
=============================================================================
