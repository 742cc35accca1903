----------------------------- MODULE MCWebhook -----------------------------
(* Deliveries for TLC: two queued jobs of one repository, a push, and a job
   whose body does not decode. *)
EXTENDS Webhook, TLC

CONSTANTS job1, job2, push, garbled, repo, gpu

Job(labels) == [event |-> "workflow_job", decodes |-> TRUE, queued |-> TRUE, repo |-> repo,
                labelled |-> TRUE, labels |-> labels]

Bodies == [id \in Ids |->
              CASE id = job1 -> Job({})
                [] id = job2 -> Job({gpu})
                [] id = push -> [Job({}) EXCEPT !.event = "push"]
                [] id = garbled -> [Job({}) EXCEPT !.decodes = FALSE]]

HandlerSymmetry == Permutations(Handlers)
=============================================================================
