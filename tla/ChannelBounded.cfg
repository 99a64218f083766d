CONSTANTS
  t1 = t1
  t2 = t2
  t3 = t3
  v1 = v1
  v2 = v2
  Nil = Nil
  Thread = {t1, t2, t3}
  HasToken = {t3}
  Value = {v1, v2}
  Capacity = 2
  max_channel_queue_size = 2
SPECIFICATION Spec
INVARIANTS NoLostReceiverWakeup NoLostSenderWakeup CloseWakesEveryone RingConsistent
PROPERTY ImplementsChannelSpec
