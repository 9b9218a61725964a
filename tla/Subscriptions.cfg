SPECIFICATION ListenerFairSpec
CONSTANTS
    t1 = t1  t2 = t2  r1 = r1  r2 = r2
    Topics = {t1, t2}
    Relays = {r1, r2}
    Main = Main  Refresher = Refresher  Handler = Handler  NoTopic = NoTopic
    MaxDeaths = 1
INVARIANT SubscribedFirst
PROPERTY TopicsAreCovered
CHECK_DEADLOCK FALSE
