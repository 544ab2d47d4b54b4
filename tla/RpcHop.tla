------------------------------- MODULE RpcHop -------------------------------
(***************************************************************************)
(* errs and the gRPC interceptors of mw: an error raised in a handler,      *)
(* wrapped on its way, turned into a status by the server's interceptor and *)
(* back into an error by the client's, and again at the next hop; and the   *)
(* context that travels the other way as metadata.  A text is the sequence  *)
(* of its pieces; stack layers, which every test looks through, are left    *)
(* out.                                                                     *)
(***************************************************************************)
EXTENDS Integers, Sequences, FiniteSets

CONSTANTS Codes, MaxCode,               \* codes raised; MaxUint32
          Internal, Args, Unknown,      \* ServerInternalError, ArgsError; gRPC's own
          Headers,                      \* custom header keys
          Opts,                         \* user, platform and connection ids
          MaxHops, MaxWraps, MaxAdds    \* bounds

VARIABLES phase, err,
          ctx,          \* the values in the caller's context
          sent,         \* history: the context of the first caller
          hops,
          want,         \* history: the code that was raised
          related,      \* codeRelation.m
          handlers      \* errs.Handlers: what plain errors stand for

vars == <<phase, err, ctx, sent, hops, want, related, handlers>>
config == <<related, handlers>>

NoErr == [kind |-> "nil", code |-> 0, msg |-> <<>>, detail |-> <<>>, wraps |-> <<>>]
CodeError(c, m, d) == [NoErr EXCEPT !.kind = "code", !.code = c, !.msg = m, !.detail = d]
Status(c, m, d) == [NoErr EXCEPT !.kind = "status", !.code = c, !.msg = m, !.detail = d]
(* A context: has it an operation id, which ids, which custom keys are      *)
(* listed and which have values.                                            *)
Contexts == [op : BOOLEAN, opts : SUBSET Opts, custom : SUBSET Headers, values : SUBSET Headers]

Init == /\ phase = "call" /\ err = NoErr /\ ctx \in Contexts /\ sent = ctx /\ hops = 0 /\ want = 0
        /\ related = {} /\ handlers = <<>>
-----------------------------------------------------------------------------
(* codeRelation.Add(codes...): each code is a parent of all that follow. *)
Add(codes) == UNION {{<<codes[i], codes[j]>> : j \in (i + 1)..Len(codes)} : i \in 1..Len(codes)}
IsParent(parent, child) == parent = child \/ <<parent, child>> \in related

(* specialerror.ErrCode: the code error in the chain, or what a handler     *)
(* makes of it; NoErr for none.                                             *)
ErrCode(e) == LET hits == SelectSeq(handlers, LAMBDA h : <<h.target>> = e.msg) IN
              IF e.kind = "code" THEN e
              ELSE IF e.kind = "plain" /\ hits # <<>> THEN CodeError(Head(hits).code, <<"replaced">>, <<>>) ELSE NoErr

(* codeError.Is, by which callers recognise an error. *)
Is(code, e) == LET c == ErrCode(e) IN c # NoErr /\ IsParent(code, c.code)

(* What Error() prints, wrappers outermost last. *)
Text(e) == e.msg \o e.detail \o e.wraps

(* Codes that a status cannot carry become internal errors. *)
InRange(code) == IF code <= 0 \/ code > MaxCode THEN Internal ELSE code
OrElse(text, other) == IF text = <<>> THEN other ELSE text

(* getErrData: code, message and detail, from the code error, the text or   *)
(* the wrappers, whichever there is.                                        *)
getErrData(e) ==
    LET c == ErrCode(e)
        printed == IF e.kind \in {"code", "string"} \/ e.wraps # <<>> THEN Text(e) ELSE <<>>
        msg == OrElse(OrElse(c.msg, printed), Text(e))
        detail == OrElse(OrElse(c.detail, IF e.wraps # <<>> THEN Text(e) ELSE <<>>), msg) IN
    CodeError(InRange(IF c = NoErr THEN Internal ELSE c.code), msg, detail)

(* handleError; a status of code 0 takes no details, and the error that     *)
(* says so is none that gRPC knows.                                         *)
handleError(e) == LET d == getErrData(e)  code == d.code % (MaxCode + 1) IN
                  IF code = 0 THEN Status(Unknown, <<"WithDetails">>, <<>>) ELSE Status(code, d.msg, d.detail)

(* The faulty variant: the detail stays on the server. *)
FromStatusBare(s) == CodeError(s.code, s.msg, <<>>)
(* RpcClientInterceptor: the status as a code error with its detail. *)
FromStatus(s) == CodeError(s.code, s.msg, s.detail)
-----------------------------------------------------------------------------
(* codeRelation.Add and specialerror.AddReplace, when the program starts. *)
Relate(codes) == /\ phase = "call" /\ hops = 0 /\ Cardinality(related) < MaxAdds /\ related' = related \cup Add(codes)
                 /\ UNCHANGED <<phase, err, ctx, sent, hops, want, handlers>>
AddReplace(code) == /\ phase = "call" /\ hops = 0 /\ Len(handlers) < MaxAdds
                    /\ handlers' = Append(handlers, [target |-> "eof", code |-> code])
                    /\ UNCHANGED <<phase, err, ctx, sent, hops, want, related>>

(* getRpcContext: the metadata of a call, with the values of the listed     *)
(* keys, or the error for which it is not made.                             *)
Refusal(c) == IF ~(c.custom \subseteq c.values) THEN Internal ELSE IF ~c.op THEN Args ELSE 0
getRpcContext(c) == [op |-> c.op, opts |-> c.opts, keys |-> c.custom, values |-> c.values \cap c.custom]

(* enrichContextWithMetadata: what the server's context holds. *)
enrich(md) == [op |-> md.op, opts |-> md.opts, custom |-> md.keys, values |-> md.values]

(* The call goes out, or the client refuses it. *)
Call == /\ phase = "call" /\ hops < MaxHops
        /\ IF Refusal(ctx) = 0
           THEN hops' = hops + 1 /\ phase' = "handler" /\ ctx' = enrich(getRpcContext(ctx)) /\ UNCHANGED <<err, want>>
           ELSE /\ phase' = (IF hops = 0 THEN "done" ELSE "error") /\ UNCHANGED <<hops, ctx>>
                /\ err' = CodeError(Refusal(ctx), <<"ctx">>, <<"missing">>) /\ want' = Refusal(ctx)
        /\ UNCHANGED <<sent, config>>

(* What a status makes of the code raised. *)
Carried(code) == IF code \in 1..MaxCode THEN code ELSE Internal
Raised(e, code) == phase = "handler" /\ err' = e /\ want' = code /\ phase' = "error" /\ UNCHANGED <<ctx, sent, hops, config>>
RaiseCode(c) == \E d \in {<<>>, <<"detail">>} : Raised(CodeError(c, <<"msg">>, d), Carried(c))
RaiseString == Raised([NoErr EXCEPT !.kind = "string", !.msg = <<"text">>], Internal)
RaisePlain == Raised([NoErr EXCEPT !.kind = "plain", !.msg = <<"eof">>], Carried(IF handlers = <<>> THEN Internal ELSE handlers[1].code))
(* The handler calls on to the next server first. *)
Forward == phase = "handler" /\ phase' = "call" /\ UNCHANGED <<err, ctx, sent, hops, want, config>>

(* errs.WrapMsg on the way up; codeError.WrapMsg adds to the detail. *)
WrapMsg == /\ phase = "error" /\ Len(err.wraps) < MaxWraps /\ err' = [err EXCEPT !.wraps = Append(@, "at")]
           /\ UNCHANGED <<phase, ctx, sent, hops, want, config>>
CodeWrapMsg == /\ phase = "error" /\ err.kind = "code" /\ err.wraps = <<>> /\ Len(err.detail) < MaxWraps
               /\ err' = [err EXCEPT !.detail = Append(@, "more")] /\ UNCHANGED <<phase, ctx, sent, hops, want, config>>

(* The handler fails: its error crosses to the caller, whose handler fails  *)
(* with it, or is the first one.                                            *)
Fail == /\ phase = "error" /\ hops > 0 /\ hops' = hops - 1
        /\ err' = FromStatus(handleError(err)) /\ phase' = IF hops = 1 THEN "done" ELSE "error"
        /\ UNCHANGED <<ctx, sent, want, config>>
(* A panic is returned as it is: gRPC sends what is no status as Unknown. *)
Panic == /\ phase = "handler" /\ hops' = hops - 1 /\ phase' = IF hops = 1 THEN "done" ELSE "error"
         /\ err' = CodeError(Unknown, <<"panic">>, <<>>) /\ want' = Internal
         /\ UNCHANGED <<ctx, sent, config>>

Chains == {<<c, d>> : c, d \in Codes} \cup {<<c, d, e>> : c, d, e \in Codes}
Next == \/ (\E codes \in Chains : Relate(codes)) \/ (\E c \in Codes : AddReplace(c)) \/ Call \/ Forward
        \/ (\E c \in Codes : RaiseCode(c)) \/ RaiseString \/ RaisePlain \/ WrapMsg \/ CodeWrapMsg \/ Fail \/ Panic
Spec == Init /\ [][Next]_vars
-----------------------------------------------------------------------------
(* A failed handler is a failed call for the first caller, with the code    *)
(* that was raised if a status can carry it, over any number of hops and    *)
(* any wrapping; a panic excepted, which arrives as gRPC's Unknown.         *)
CodeSurvives == phase = "done" => err.kind = "code" /\ (err.code = want \/ err.msg[1] = "panic")

(* What a caller recognises on the one side of the wire it recognises on    *)
(* the other, and a detail that was there is still there.                   *)
IsSurvives == [][Fail => (\A c \in Codes : c \in 1..MaxCode /\ Is(c, err) /\ ErrCode(err).code = want => Is(c, err'))
                         /\ (err.kind = "code" /\ err.detail # <<>> => err'.detail = err.detail)]_vars

(* The ids of the first caller and the custom values it lists reach every   *)
(* handler down the line, so that the last can be traced to the first.      *)
CtxSurvives == phase = "handler" => /\ [ctx EXCEPT !.values = {}] = [sent EXCEPT !.values = {}]
                                  /\ \A h \in sent.custom : h \in ctx.values
=============================================================================
