---------------------------- MODULE MCRpcRuntime ----------------------------
(* Instances of RpcRuntime for TLC. *)
EXTENDS RpcRuntime

CONSTANTS t1, t2, counted, value, data, marked

Counter(op, o, t) == [op |-> op, buf |-> o, len |-> 0, by |-> t]
Put(o, n, t) == [op |-> "put", buf |-> o, len |-> n, by |-> t]
Fill(o, t) == [op |-> "read", buf |-> o, len |-> 0, by |-> t]

(* Steps and gets of the counter; an upload between two reads into its     *)
(* buffer; an upload of what a get returned, in a buffer the program marks *)
(* pending itself at times.                                                *)
MCPrograms ==
    {<<Counter("get", counted, t1), Counter("step", value, t1), Counter("get", counted, t1)>>,
     <<Counter("step", counted, t1), Counter("step", value, t2)>>,
     <<Fill(data, t1), Put(data, 2, t1), Fill(data, t1)>>,
     <<Counter("get", marked, t1), Put(marked, 1, t2)>>}
=============================================================================
