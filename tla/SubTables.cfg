SPECIFICATION FairSpec
CONSTANTS
  t1 = t1  t2 = t2  t3 = t3  f1 = f1  f2 = f2
  Tasks = {t1, t2}
  Topics = {f1, f2}
  TopicOf <- OwnTopics
  QoS0Topics = {f1}
  Refused = {f2}
  MaxSubs = 2
  MaxCallbacks = 2
  MaxCbCount = 1
  o1 = o1  o2 = o2  Own = {o1}
  NoTopic = NoTopic
  EarlyPublish = FALSE
INVARIANTS
  TypeOK
  AgentHoldsTables
  SubscribedIsRouted

  
